---- MODULE Spec2Model ----
(***************************************************************************)
(* A model of the scraping pipeline of the Web_Scraper backend:            *)
(*   ScrapingEngine.scrape           (backend/scraping_engine.py)          *)
(*   ScraperFactory.scrape_with_fallback (backend/scrapers/scraper_factory.py) *)
(*   StaticScraper.fetch_page / DynamicScraper.fetch_page under their      *)
(*   tenacity @retry decorators      (backend/scrapers/*_scraper.py)       *)
(*   BaseScraper.extract_data        (backend/scrapers/base_scraper.py)    *)
(*   DataNormalizer.normalize        (backend/utils/data_normalizer.py)    *)
(*   RateLimiter, is_blocked_response (backend/utils/rate_limiter.py)      *)
(*   PageTypeDetector.detect         (backend/scrapers/page_detector.py)   *)
(*                                                                         *)
(* Under Spec one behaviour is one call of scrape on one request; under    *)
(* SoloSpec, LimiterSpec and PairSpec one behaviour is a run of the tasks  *)
(* that call the rate limiter while no scrape runs; under NormalizerSpec,  *)
(* ExtractorSpec and DetectorSpec one behaviour is one direct call of     *)
(* normalize (and a second on its output), extract_data or detect on      *)
(* arguments drawn from a bounded set.  The transports,                   *)
(* the browser and the detector's preliminary fetch are the environment:  *)
(* every attempt's result (a document, or an exception of some type) is   *)
(* chosen nondeterministically.                                            *)
(*                                                                         *)
(* Optional values (Python's None) are sequences of length 0 or 1.        *)
(* Text is a sequence of one-character strings.                            *)
(***************************************************************************)
EXTENDS Integers, Sequences, FiniteSets, TLC

VARIABLES
    request,          \* the ScrapeRequest of this call
    pc,               \* where the call stands
    outcome,          \* the ScrapeResponse returned, None until the call ends
    escaped,          \* an exception that left scrape, None if none did
    all_data,         \* scrape: all_data
    pages_scraped,    \* scrape: pages_scraped
    current_url,      \* scrape: current_url
    scraper_used,     \* scrape: scraper_used
    page_num,         \* scrape: page_num of the for loop
    max_pages,        \* scrape: max_pages
    static_scraper,   \* ScraperFactory._static_scraper is not None
    dynamic_scraper,  \* ScraperFactory._dynamic_scraper is not None
    detector,         \* ScraperFactory._detector is not None
    scrapers_to_try,  \* scrape_with_fallback: scrapers_to_try
    try_idx,          \* scrape_with_fallback: position of the for loop
    last_error,       \* scrape_with_fallback: last_error
    attempt,          \* tenacity: attempt_number of the running fetch_page
    fp_result,        \* what fetch_page returned or raised, until its caller takes it
    exc,              \* the exception propagating inside scrape's try block
    recommended,      \* history: what the detector recommended in this fallback call
    fetch_calls,      \* history: the fetch_page calls of this fallback call
    saf_calls,        \* history: number of scrape_with_fallback calls of this scrape
    page_fetches,     \* history: the scrape_with_fallback calls that returned, in order
    net_calls         \* history: transport attempts made (static, dynamic, detector)

\* The process-wide RateLimiter (backend/utils/rate_limiter.py) and the
\* tasks that call it
VARIABLES
    limiter,          \* RateLimiter: min_delay, max_delay, requests_before_increase, block_cooldown
    now,              \* time.time(), in ticks of half a second
    states,           \* the DomainState objects, by the slot each one occupies
    domain_states,    \* RateLimiter._domain_states: domain -> slot of its state, 0 if absent
    tasks             \* per task: where its wait_for_slot call stands, and the call's locals

scrape_vars == <<request, pc, outcome, escaped, all_data, pages_scraped, current_url,
          scraper_used, page_num, max_pages, static_scraper, dynamic_scraper,
          detector, scrapers_to_try, try_idx, last_error, attempt, fp_result,
          exc, recommended, fetch_calls, saf_calls, page_fetches, net_calls>>

limiter_vars == <<limiter, now, states, domain_states, tasks>>

\* A direct call of one component (DataNormalizer.normalize,
\* BaseScraper.extract_data, PageTypeDetector.detect) outside a scrape
VARIABLES
    arg,              \* the arguments of the call
    ret               \* what the call returned, None while it has not returned

call_vars == <<arg, ret>>

\* The scraper objects, what they hold, and the calls running on them
\* (backend/scrapers/static_scraper.py, dynamic_scraper.py, scraper_factory.py)
VARIABLES
    factory,          \* ScraperFactory: _static_scraper, _dynamic_scraper
    scrapers,         \* the StaticScraper and DynamicScraper objects, in order of creation
    resources,        \* the aiohttp sessions, Playwright drivers, browsers, contexts and pages that are open
    calls             \* per task: the fetch_page, close, scrape_with_fallback or cleanup call it runs

lifecycle_vars == <<factory, scrapers, resources, calls>>

vars == <<scrape_vars, limiter_vars, call_vars, lifecycle_vars>>

----------------------------------------------------------------------------
(* Bounds of the model *)

\* max_pages of a request ranges over MinMaxPages..MaxMaxPages
MaxMaxPages == 2

\* the clock runs from StartTime to MaxTime
MaxTime == 12

\* wait_for_slot is not called on a DomainState whose request_count has
\* reached MaxCount
MaxCount == 3

\* a record list handed to normalize directly has at most MaxRecords records
MaxRecords == 3

\* a document handed to extract_data directly has at most MaxContainers
\* container elements, and the schema at most MaxFields fields
MaxContainers == 3
MaxFields == 2

\* a behaviour of the scrapers launches a browser at most MaxLaunches times,
\* opens at most MaxSessions aiohttp sessions, and the factory makes at most
\* MaxScrapers scraper objects
MaxLaunches == 2
MaxSessions == 2
MaxScrapers == 3

\* the tasks make at most MaxCalls calls of the scrapers' methods together,
\* and at most MaxRequests calls of the factory's
MaxCalls == 3
MaxRequests == 2

----------------------------------------------------------------------------
(* Program constants *)

StaticStopAfterAttempt == 3
DynamicStopAfterAttempt == 3
DefaultTimeout == 30

\* PageTypeDetector: len(DYNAMIC_INDICATORS), len(STATIC_INDICATORS) and the
\* text lengths below and above which content density counts
DynamicIndicatorCount == 12
StaticIndicatorCount == 5
LowDensity == 500
HighDensity == 2000

----------------------------------------------------------------------------
(* Values *)

None == <<>>
Some(x) == <<x>>
IsNone(o) == o = <<>>
Get(o) == o[1]

\* A list value of a record: the list [e1, ..., en] is <<"list", <<e1, ..., en>>>>
List(elems) == <<"list", elems>>
IsList(value) == Len(value) = 2
Elems(value) == value[2]

\* Text: a Python str as the sequence of its characters
Whitespace == {" ", "\t", "\n"}

\* ScraperType
AUTO == "auto"
STATIC == "static"
DYNAMIC == "dynamic"
ScraperType == {AUTO, STATIC, DYNAMIC}

\* URLs: the string scheme + ":" + ("//" + host if slashes) + "/" + path
\* segments joined by "/".  The scheme is kept as written (case included).
Url(scheme, slashes, host, path) ==
    [scheme |-> scheme, slashes |-> slashes, host |-> host, path |-> path]

EmptyUrl == Url("", FALSE, "", <<>>)

RequestUrls ==
    { Url("http", TRUE, "x.test", <<"list">>),
      Url("https", TRUE, "x.test", <<"a", "">>),
      Url("ftp", TRUE, "x.test", <<"list">>),
      Url("HTTP", TRUE, "x.test", <<"list">>),
      Url("http", FALSE, "", <<"x.test", "list">>),
      EmptyUrl }

\* str.startswith(('http://', 'https://')): exact, case-sensitive prefix
StartsWithHttp(u) == u.scheme \in {"http", "https"} /\ u.slashes

\* RFC 3986 scheme of the URL, case-insensitive
Lower(s) == IF s = "HTTP" THEN "http" ELSE IF s = "HTTPS" THEN "https" ELSE s
HasHttpScheme(u) == Lower(u.scheme) \in {"http", "https"}

\* the characters of the schemes, hosts and path segments of the model
Letters(s) ==
    CASE s = "http" -> <<"h", "t", "t", "p">>
      [] s = "https" -> <<"h", "t", "t", "p", "s">>
      [] s = "HTTP" -> <<"H", "T", "T", "P">>
      [] s = "ftp" -> <<"f", "t", "p">>
      [] s = "x.test" -> <<"x", ".", "t", "e", "s", "t">>
      [] s = "y.test" -> <<"y", ".", "t", "e", "s", "t">>
      [] s = "list" -> <<"l", "i", "s", "t">>
      [] s = "p2" -> <<"p", "2">>
      [] s = "" -> <<>>
      [] OTHER -> <<s>>

\* the path of a URL as text
RECURSIVE PathText(_)
PathText(path) ==
    IF path = <<>> THEN <<>>
    ELSE <<"/">> \o Letters(Head(path)) \o PathText(Tail(path))

\* the URL as the string the request carries
UrlText(u) ==
    Letters(u.scheme) \o <<":">>
        \o (IF u.slashes THEN <<"/", "/">> \o Letters(u.host) ELSE <<>>)
        \o PathText(u.path)

----------------------------------------------------------------------------
(* Documents: what a successful fetch returns, as the query engine sees it *)

\* CSS selectors of a request: absent, well-formed, or malformed (the query
\* engine raises a selector syntax error on it)
GoodSelector == "ok"
BadSelector == "bad"
Selectors == {None, Some(GoodSelector), Some(BadSelector)}

\* href of the element the next-page selector matches
RelHref(seg) == [kind |-> "rel", seg |-> seg, url |-> EmptyUrl]
AbsHref(u) == [kind |-> "abs", seg |-> "", url |-> u]
Hrefs == { RelHref("p2"), AbsHref(Url("https", TRUE, "y.test", <<"q">>)) }

\* A document: for each container element in document order the raw text of
\* the field's match inside it (None: no match), and the href of the
\* next-page link (None: no such element, or it has no href)
TextA == <<"a">>
TextARaw == <<" ", "a", " ", "\t">>
TextB == <<"b">>
TextBlank == <<" ">>

DocContainers ==
    { <<>>,
      <<Some(TextARaw), None, Some(TextB)>>,
      <<Some(TextBlank), Some(TextA)>> }

Docs == [containers : DocContainers, next : {None} \cup {Some(h) : h \in Hrefs}]

\* urllib.parse.urljoin(base, href) for the hrefs above: an absolute URL
\* replaces the base; a relative reference replaces the last path segment
urljoin(base, href) ==
    IF href.kind = "abs" THEN href.url
    ELSE [base EXCEPT !.path =
            IF base.path = <<>> THEN <<href.seg>>
            ELSE Append(SubSeq(base.path, 1, Len(base.path) - 1), href.seg)]

----------------------------------------------------------------------------
(* Text cleaning *)

RECURSIVE LStrip(_)
LStrip(t) ==
    IF t # <<>> /\ Head(t) \in Whitespace THEN LStrip(Tail(t)) ELSE t

RECURSIVE RStrip(_)
RStrip(t) ==
    IF t # <<>> /\ t[Len(t)] \in Whitespace
    THEN RStrip(SubSeq(t, 1, Len(t) - 1)) ELSE t

\* str.strip()
Strip(t) == RStrip(LStrip(t))

\* re.sub(r'\s+', ' ', t)
RECURSIVE CollapseWhitespace(_)
CollapseWhitespace(t) ==
    IF t = <<>> THEN <<>>
    ELSE IF Head(t) \in Whitespace
         THEN <<" ">> \o CollapseWhitespace(LStrip(t))
         ELSE <<Head(t)>> \o CollapseWhitespace(Tail(t))

\* BaseScraper._clean_text: None for None and for text that cleans to '';
\* the argument is a value, evaluated once by the caller
BaseCleanText(text) ==
    LET clean_text[x \in {text}] ==
            IF IsNone(x) THEN None
            ELSE LET t == CollapseWhitespace(Strip(Get(x)))
                 IN  IF t = <<>> THEN None ELSE Some(t)
    IN  clean_text[text]

\* the characters U+200B, U+200C, U+200D and U+FEFF, which _clean_text removes
ZeroWidth == {"<200b>", "<200c>", "<200d>", "<feff>"}

RECURSIVE RemoveZeroWidth(_)
RemoveZeroWidth(t) ==
    IF t = <<>> THEN <<>>
    ELSE IF Head(t) \in ZeroWidth THEN RemoveZeroWidth(Tail(t))
         ELSE <<Head(t)>> \o RemoveZeroWidth(Tail(t))

\* DataNormalizer._clean_text (the quote replacements of the source map the
\* straight quote characters to themselves)
CleanText(t) ==
    LET clean_text[x \in {t}] ==
            IF x = <<>> THEN <<>>
            ELSE RemoveZeroWidth(CollapseWhitespace(Strip(x)))
    IN  clean_text[t]

----------------------------------------------------------------------------
(* Extraction: BaseScraper.extract_data with CSS fields                   *)
(*                                                                         *)
(* An element (a container, or the whole document) is given by the         *)
(* elements a well-formed field selector matches inside it, in document    *)
(* order; a matched element by its raw text and its attributes.  A value   *)
(* is None, a str (Some(text)) or a list of values (List(elems)).           *)

Title == "title"
FieldNames == {Title}
FieldLists == {<<>>, <<Title>>}

\* ExtractionField (selector_type is CSS)
Field(name, selector, attribute, multiple, default) ==
    [name |-> name, selector |-> selector, attribute |-> attribute,
     multiple |-> multiple, default |-> default]

\* the fields of a ScrapeRequest of the scrape model: text fields with a
\* well-formed selector, every other attribute at its default
TextFields(names) ==
    [i \in 1..Len(names) |-> Field(names[i], GoodSelector, None, FALSE, None)]

Matched(text, attrs) == [text |-> text, attrs |-> attrs]

\* the container elements of a document of the scrape model
Elements(containers) ==
    [i \in 1..Len(containers) |->
        [matches |-> IF IsNone(containers[i]) THEN <<>>
                     ELSE <<Matched(Get(containers[i]), <<>>)>>]]

\* _get_element_value of a matched element: the attribute as written (None
\* if the element has no such attribute), or the cleaned text
get_element_value(el, attribute) ==
    IF ~IsNone(attribute) /\ Get(attribute) # ""
    THEN IF Get(attribute) \in DOMAIN el.attrs
         THEN Some(el.attrs[Get(attribute)]) ELSE None
    ELSE BaseCleanText(Some(el.text))

\* _extract_css
extract_css(element, field) ==
    IF field.multiple
    THEN List([i \in 1..Len(element.matches) |->
                  get_element_value(element.matches[i], field.attribute)])
    ELSE IF element.matches = <<>> THEN None
         ELSE get_element_value(element.matches[1], field.attribute)

\* element.select / select_one raise a selector syntax error on a
\* malformed field selector
FieldRaises(field) == field.selector = BadSelector

\* _extract_fields_from_element, lines 98-106: the value one field gets
FieldValue(element, field) ==
    IF FieldRaises(field) THEN field.default
    ELSE LET value == extract_css(element, field)
         IN  IF IsNone(value) THEN field.default ELSE value

\* result[field.name] = ...: the last field of that name is the one that stays
LastNamed(fields, name) ==
    fields[CHOOSE i \in 1..Len(fields) :
              /\ fields[i].name = name
              /\ \A j \in (i + 1)..Len(fields) : fields[j].name # name]

\* _extract_fields_from_element with one try block around the whole loop
ExtractFields_AbortOnError(element, fields) ==
    [name \in {fields[i].name : i \in 1..Len(fields)} |->
        IF \E j \in 1..Len(fields) : FieldRaises(fields[j])
        THEN LastNamed(fields, name).default
        ELSE FieldValue(element, LastNamed(fields, name))]

\* _extract_fields_from_element: every field evaluated in order, a later
\* field of the same name overwriting an earlier one
ExtractFields(element, fields) ==
    [name \in {fields[i].name : i \in 1..Len(fields)} |->
        FieldValue(element, LastNamed(fields, name))]

\* any(v is not None for v in item.values())
AnyNotNone(item) == \E f \in DOMAIN item : ~IsNone(item[f])

RECURSIVE ExtractContainers(_, _)
ExtractContainers(containers, fields) ==
    IF containers = <<>> THEN <<>>
    ELSE LET item == ExtractFields(Head(containers), fields)
             rest == ExtractContainers(Tail(containers), fields)
         IN  IF AnyNotNone(item) THEN <<item>> \o rest ELSE rest

\* the whole document as an element: every match in document order
RECURSIVE Soup(_)
Soup(containers) ==
    IF containers = <<>> THEN [matches |-> <<>>]
    ELSE [matches |-> Head(containers).matches \o Soup(Tail(containers)).matches]

\* extract_data that filters the record of the whole document as well
ExtractData_Filtered(containers, fields, container_selector) ==
    IF ~IsNone(container_selector) /\ Get(container_selector) # ""
    THEN ExtractContainers(containers, fields)
    ELSE ExtractContainers(<<Soup(containers)>>, fields)

\* extract_data with a well-formed, empty or absent container selector
ExtractData(containers, fields, container_selector) ==
    IF ~IsNone(container_selector) /\ Get(container_selector) # ""
    THEN ExtractContainers(containers, fields)
    ELSE <<ExtractFields(Soup(containers), fields)>>

\* extract_data as scrape calls it
extract_data(html, fields, container_selector) ==
    ExtractData(Elements(html.containers), TextFields(fields), container_selector)

\* soup.select(container_selector) raises on a malformed selector
ExtractRaises(container_selector) ==
    ~IsNone(container_selector) /\ Get(container_selector) = BadSelector

----------------------------------------------------------------------------
(* Normalization: DataNormalizer.normalize(data, dedupe)                   *)
(*                                                                         *)
(* A record is a function from its keys (names) to values; a value is None *)
(* (<<>>), a str (Some(text)) or a list of such values (List(elems)).       *)
(* Values of other types pass through _normalize_value untouched and are   *)
(* not drawn.                                                              *)

\* sub in t
Contains(t, sub) ==
    \E i \in 0..(Len(t) - Len(sub)) : SubSeq(t, i + 1, i + Len(sub)) = sub

\* t.startswith(prefix)
StartsWith(t, prefix) ==
    Len(t) >= Len(prefix) /\ SubSeq(t, 1, Len(prefix)) = prefix

\* str.lower() on the letters that field names are written with
LowerText(t) ==
    [i \in 1..Len(t) |->
        IF t[i] = "U" THEN "u" ELSE IF t[i] = "F" THEN "f" ELSE t[i]]

\* the field names of the model, each with its characters
Keys == {"title", "Url", "Fee", "t", "s", "m", "h", "x"}

Spelling(key) ==
    CASE key = "title" -> <<"t", "i", "t", "l", "e">>
      [] key = "Url" -> <<"U", "r", "l">>
      [] key = "Fee" -> <<"F", "e", "e">>
      [] OTHER -> <<key>>

\* _is_url_field: the names that contain a URL indicator
UrlFields ==
    { key \in Keys :
        \E indicator \in { <<"u", "r", "l">>, <<"l", "i", "n", "k">>,
                           <<"h", "r", "e", "f">>, <<"s", "r", "c">>,
                           <<"i", "m", "a", "g", "e">>, <<"i", "m", "g">>,
                           <<"p", "h", "o", "t", "o">> } :
            Contains(LowerText(Spelling(key)), indicator) }

is_url_field(key) == key \in UrlFields

\* _is_price_field: the names that contain a price indicator
PriceFields ==
    { key \in Keys :
        \E indicator \in { <<"p", "r", "i", "c", "e">>, <<"c", "o", "s", "t">>,
                           <<"a", "m", "o", "u", "n", "t">>, <<"f", "e", "e">>,
                           <<"r", "a", "t", "e">> } :
            Contains(LowerText(Spelling(key)), indicator) }

is_price_field(key) == key \in PriceFields

\* urllib.parse.urljoin(base, url) on texts, for a base scheme://host/path
\* and a reference that is a path: one that starts with "/" replaces the
\* whole path of the base, any other replaces its last segment
UrlJoinText(base, url) ==
    LET slashes == {i \in 1..Len(base) : base[i] = "/"}
        path_start == CHOOSE i \in slashes :
                          Cardinality({j \in slashes : j < i}) = 2
        last_slash == CHOOSE i \in slashes : \A j \in slashes : j <= i
    IN  IF Head(url) = "/" THEN SubSeq(base, 1, path_start - 1) \o url
        ELSE SubSeq(base, 1, last_slash) \o url

\* _resolve_url, line 127: 'http://', 'https://', 'data:', 'javascript:'
AbsolutePrefixes ==
    { <<"h", "t", "t", "p", ":", "/", "/">>,
      <<"h", "t", "t", "p", "s", ":", "/", "/">>,
      <<"d", "a", "t", "a", ":">>,
      <<"j", "a", "v", "a", "s", "c", "r", "i", "p", "t", ":">> }

\* _resolve_url; base_url is None or Some(text)
resolve_url(url, base_url) ==
    IF \/ url = <<>>
       \/ \E prefix \in AbsolutePrefixes : StartsWith(url, prefix)
    THEN url
    ELSE IF ~IsNone(base_url) /\ Get(base_url) # <<>>
         THEN UrlJoinText(Get(base_url), url)
         ELSE url

\* _normalize_price: re.sub(r'\s+', '', price)
RECURSIVE normalize_price(_)
normalize_price(price) ==
    IF price = <<>> THEN <<>>
    ELSE IF Head(price) \in Whitespace THEN normalize_price(Tail(price))
         ELSE <<Head(price)>> \o normalize_price(Tail(price))

\* _normalize_value of a str: cleaned, then resolved in a URL field and
\* stripped of whitespace in a price field, each only while non-empty
NormalizeStr(key, text, base_url) ==
    LET cleaned == CleanText(text)
        resolved == IF is_url_field(key) /\ cleaned # <<>>
                    THEN resolve_url(cleaned, base_url) ELSE cleaned
    IN  IF is_price_field(key) /\ resolved # <<>>
        THEN normalize_price(resolved) ELSE resolved

\* _normalize_value: None stays None; a list loses its None elements and
\* has the others normalized; a str is normalized
RECURSIVE NormalizeValue(_, _, _)
NormalizeValue(key, value, base_url) ==
    IF IsNone(value) THEN None
    ELSE IF IsList(value)
         THEN LET kept == SelectSeq(Elems(value), LAMBDA v : ~IsNone(v))
              IN  List([i \in 1..Len(kept) |->
                           NormalizeValue(key, kept[i], base_url)])
         ELSE Some(NormalizeStr(key, Get(value), base_url))

\* _normalize_item, lines 64-68: the value gives the item content
HasContent_NotNone(normalized_value) == ~IsNone(normalized_value)

HasContent(normalized_value) ==
    /\ ~IsNone(normalized_value)
    /\ normalized_value # Some(<<>>)
    /\ IsList(normalized_value) => Len(Elems(normalized_value)) > 0

\* _normalize_item: the normalized item, or None if no value has content
NormalizeItem(item, base_url) ==
    LET result == [key \in DOMAIN item |->
                      NormalizeValue(key, item[key], base_url)]
    IN  IF \E key \in DOMAIN result : HasContent(result[key])
        THEN Some(result) ELSE None

RECURSIVE NormalizeItems(_, _)
NormalizeItems(data, base_url) ==
    IF data = <<>> THEN <<>>
    ELSE LET n == NormalizeItem(Head(data), base_url)
         IN  (IF IsNone(n) THEN <<>> ELSE n) \o NormalizeItems(Tail(data), base_url)

\* _hash_item: the digest of str(sorted(item.items())), which is one text
\* per set of key/value pairs (digest collisions aside)
hash_item_KeysOnly(item) == DOMAIN item

hash_item(item) == {<<key, item[key]>> : key \in DOMAIN item}

\* _remove_duplicates
RECURSIVE RemoveDuplicates(_, _)
RemoveDuplicates(data, seen) ==
    IF data = <<>> THEN <<>>
    ELSE LET item_hash == hash_item(Head(data))
         IN  IF item_hash \in seen THEN RemoveDuplicates(Tail(data), seen)
             ELSE <<Head(data)>>
                  \o RemoveDuplicates(Tail(data), seen \cup {item_hash})

\* DataNormalizer(base_url).normalize(data, dedupe); the list `normalized`
\* is built once
Normalize(data, dedupe, base_url) ==
    LET deduped[normalized \in {NormalizeItems(data, base_url)}] ==
            IF dedupe THEN RemoveDuplicates(normalized, {}) ELSE normalized
    IN  deduped[NormalizeItems(data, base_url)]

\* normalizer.normalize(all_data, dedupe=True) with the normalizer made for
\* the given URL (scraping_engine.py, lines 105-106)
normalize(data, url) == Normalize(data, TRUE, Some(UrlText(url)))

\* a variant that hands the normalizer the URL of the page fetched last
NormalizerBase_CurrentPage(url, current) == current

\* DataNormalizer(base_url=request.url) (scraping_engine.py, line 105)
NormalizerBase(url, current) == url

----------------------------------------------------------------------------
(* Exceptions *)

\* An exception object: its class, the class of the exception it wraps (""
\* if none) and the fetch_page call or step that created it (its identity)
Exc(type, cause, origin) == [type |-> type, cause |-> cause, origin |-> origin]

\* what one attempt of StaticScraper.fetch_page can raise: asyncio.TimeoutError,
\* aiohttp.ClientError (raise_for_status included), or an error that is
\* neither (e.g. a decoding error of response.text())
StaticAttemptErrors == {"TimeoutError", "ClientError", "UnicodeDecodeError"}

\* what one attempt of DynamicScraper.fetch_page can raise: playwright's
\* TimeoutError or another playwright Error
DynamicAttemptErrors == {"PlaywrightTimeoutError", "PlaywrightError"}

\* the exception classes that mean a deadline was exceeded
TimeoutTypes == {"TimeoutError", "PlaywrightTimeoutError"}

ExceptionTypes ==
    StaticAttemptErrors \cup DynamicAttemptErrors
        \cup {"RetryError", "SelectorSyntaxError", "FeatureNotFound"}

\* a retry predicate that retries every exception
StaticRetries_Any(type) == type \in ExceptionTypes

\* retry_if_exception_type((aiohttp.ClientError, asyncio.TimeoutError))
StaticRetries(type) == type \in {"ClientError", "TimeoutError"}

\* DynamicScraper's @retry gives no retry predicate: every exception retries
DynamicRetries(type) == type \in ExceptionTypes

\* isinstance(e, asyncio.TimeoutError)
IsAsyncioTimeout(e) == e.type = "TimeoutError"

\* a variant whose last except clause catches transport errors only
IsException_TransportOnly(e) == e.type \in {"ClientError", "TimeoutError"}

\* isinstance(e, Exception)
IsException(e) == e.type \in ExceptionTypes

\* str(e)
Str(e) ==
    IF e.type = "RetryError" THEN "RetryError[<Future raised " \o e.cause \o ">]"
    ELSE "message of " \o e.type

----------------------------------------------------------------------------
(* Requests *)

Pagination(enabled, selector, pages) ==
    [enabled |-> enabled, next_page_selector |-> selector, max_pages |-> pages]

\* no pagination, pagination switched off, and pagination switched on with
\* every selector and every max_pages of -1..MaxMaxPages (the request model
\* puts no constraint on max_pages)
Paginations ==
    {None, Some(Pagination(FALSE, Some(GoodSelector), MaxMaxPages))} \cup
    { Some(Pagination(TRUE, sel, mp)) : sel \in Selectors, mp \in (0 - 1)..MaxMaxPages }

Requests ==
    [url : RequestUrls, scraper_type : ScraperType, fields : FieldLists,
     container_selector : Selectors, pagination : Paginations,
     timeout : {DefaultTimeout}]

\* request.pagination and request.pagination.enabled
PaginationEnabled(r) == ~IsNone(r.pagination) /\ Get(r.pagination).enabled

----------------------------------------------------------------------------
(* Responses *)

ErrorDetails(url, timeout, error_type) ==
    Some([url |-> url, timeout |-> timeout, error_type |-> error_type])

\* a variant that hands out the records gathered so far with the error
ErrorResponse_Partial(code, message, details) ==
    [success |-> FALSE,
     result |-> Some([url |-> request.url, scraper_used |-> scraper_used,
                      data |-> all_data, total_items |-> Len(all_data),
                      pages_scraped |-> pages_scraped]),
     error |-> Some([code |-> code, message |-> message, details |-> details])]

\* ScrapeResponse(success=False, error=ScrapeError(code, message, details))
ErrorResponse(code, message, details) ==
    [success |-> FALSE, result |-> None,
     error |-> Some([code |-> code, message |-> message, details |-> details])]

\* ScrapeResponse(success=True, result=ScrapeResult(...))
SuccessResponse(url, used, data, pages) ==
    [success |-> TRUE,
     result |-> Some([url |-> url, scraper_used |-> used, data |-> data,
                      total_items |-> Len(data), pages_scraped |-> pages]),
     error |-> None]

----------------------------------------------------------------------------
(* RateLimiter: configuration, DomainState and the pure parts               *)
(* (backend/utils/rate_limiter.py)                                          *)


\* RateLimiter(min_delay, max_delay, requests_before_increase, block_cooldown);
\* times in ticks of half a second, min_delay an even number of ticks so
\* that min_delay * (1 + multiplier * 0.5) is a whole number of ticks
RateLimiter(min_delay, max_delay, requests_before_increase, block_cooldown) ==
    [min_delay |-> min_delay, max_delay |-> max_delay,
     requests_before_increase |-> requests_before_increase,
     block_cooldown |-> block_cooldown]

\* rate_limiter = RateLimiter(): 1.0 s, 10.0 s, 10 requests, 60.0 s
rate_limiter == RateLimiter(2, 20, 10, 120)

\* the configurations the limiter is constructed with; the constructor
\* accepts any numbers, max_delay below min_delay included
Limiters ==
    { RateLimiter(2, 3, 1, 1),
      RateLimiter(4, 2, 1, 1) }

\* the first reading of the clock: DomainState.last_request_time starts at
\* 0, which is further in the past of any reading of time.time() than any
\* delay of the configurations Limiters is long
StartTime ==
    LET longest == CHOOSE n \in {l.min_delay + l.max_delay : l \in Limiters} :
                       \A l \in Limiters : n >= l.min_delay + l.max_delay
    IN  longest + 2

\* DomainState()
DomainState ==
    [last_request_time |-> 0, request_count |-> 0, blocked |-> FALSE,
     blocked_until |-> 0]

\* the tasks of the process that call the limiter
Tasks == {"t1", "t2"}

\* the URLs the limiter is called with
LimiterUrls ==
    { Url("http", TRUE, "x.test", <<"list">>),
      Url("http", TRUE, "X.TEST", <<"list">>),
      Url("https", TRUE, "y.test", <<"q">>) }

\* str.lower() of a host name
LowerHost(h) == IF h = "X.TEST" THEN "x.test" ELSE h

\* the keys _domain_states can have
Domains == {"x.test", "y.test"}

\* a variant that files every URL under one key
get_domain_OneKey(url) == "x.test"

\* _get_domain(url): urlparse(url).netloc.lower()
get_domain(url) == LowerHost(url.host)

Min2(a, b) == IF a <= b THEN a ELSE b

\* the delay wait_for_slot computes from request_count (lines 80-86)
Delay(l, request_count) ==
    IF request_count > l.requests_before_increase
    THEN LET multiplier == Min2(request_count \div l.requests_before_increase, 5)
         IN  Min2((l.min_delay * (2 + multiplier)) \div 2, l.max_delay)
    ELSE l.min_delay

\* a variant of mark_blocked that keeps request_count
mark_blocked_KeepsCount(state, time, l) ==
    [state EXCEPT !.blocked = TRUE, !.blocked_until = time + l.block_cooldown]

\* mark_blocked (lines 104-107) on a DomainState
mark_blocked(state, time, l) ==
    [state EXCEPT !.blocked = TRUE,
                  !.blocked_until = time + l.block_cooldown,
                  !.request_count = 0]

\* is_blocked (lines 112-117) on a DomainState: the state it leaves and the
\* value it returns
is_blocked(state, time) ==
    LET after == IF state.blocked /\ time >= state.blocked_until
                 THEN [state EXCEPT !.blocked = FALSE]
                 ELSE state
    IN  [state |-> after, value |-> after.blocked]

\* the status codes and the body phrases is_blocked_response looks for
BlockStatusCodes == {403, 429, 503, 520, 521, 522, 523, 524}
BlockIndicators == {"captcha", "robot", "blocked", "access denied", "rate limit",
                    "too many requests", "cloudflare"}

\* is_blocked_response(status_code, body); the body is given as the set of
\* phrases that occur in body.lower()
is_blocked_response(status_code, body) ==
    status_code \in BlockStatusCodes \/ body \cap BlockIndicators # {}

\* the response behind the exception of a static attempt: the model's
\* aiohttp.ClientError is the ClientResponseError that raise_for_status()
\* raises for a 429 response with an empty body; the other exceptions come
\* with no response
ResponseOf(type) ==
    IF type = "ClientError" THEN Some([status_code |-> 429, body |-> {}])
    ELSE None

\* a variant that sleeps for the time since the last request
PacingSleep_Elapsed(delay, time_since_last) == time_since_last

\* delay - time_since_last (line 90)
PacingSleep(delay, time_since_last) == delay - time_since_last

\* a task that is not inside wait_for_slot
Idle == [pc |-> "idle", domain |-> "", state |-> 0, current_time |-> 0,
         wake |-> 0, delay |-> 0]

\* the slots DomainState objects can occupy: the map holds at most one per
\* domain and each running call holds at most one the map no longer holds
Slots == 1..(Cardinality(Domains) + Cardinality(Tasks))

\* a fresh process: the given limiter, no DomainState yet, no call running
LimiterInit(l) ==
    /\ limiter = l
    /\ now = StartTime
    /\ states = [i \in Slots |-> DomainState]
    /\ domain_states = [d \in Domains |-> 0]
    /\ tasks = [t \in Tasks |-> Idle]

----------------------------------------------------------------------------
(* Initial state: scrape is called with some request in a fresh process    *)

NoFetch == [ok |-> FALSE, html |-> None, error |-> None]

\* StaticScraper.__init__ (static_scraper.py, lines 34-42)
StaticScraper == [name |-> "static", _session |-> None]

\* DynamicScraper.__init__ (dynamic_scraper.py, lines 25-30)
DynamicScraper ==
    [name |-> "dynamic", _playwright |-> None, _browser |-> None, _context |-> None]

\* the class attributes of ScraperFactory (scraper_factory.py, lines 25-26)
ScraperFactory == [_static_scraper |-> None, _dynamic_scraper |-> None]

\* nothing is open: opened and launches count the sessions and the browser
\* launches so far, and number them
NoResources ==
    [opened |-> 0, sessions |-> {}, launches |-> 0, drivers |-> {},
     browsers |-> {}, contexts |-> {}, pages |-> {}]

\* a task that runs no call.  op and self name the call and the scraper it
\* is made on; n is the session, driver, browser or context the call awaits
\* on; outer is the scrape_with_fallback or cleanup call that made this one;
\* again (history) says that a close call directly followed a close call
\* of the same task on the same scraper that had returned; made counts the
\* calls the task has made
NoCall ==
    [op |-> "none", self |-> 0, pc |-> "idle", attempt |-> 0, n |-> 0,
     page |-> None, ok |-> FALSE, outer |-> None, again |-> FALSE, made |-> 0]

\* no scraper exists and no task runs a call
Unused ==
    /\ factory = ScraperFactory
    /\ scrapers = <<>>
    /\ resources = NoResources
    /\ calls = [t \in Tasks |-> NoCall]

\* the state in which scrape is called
AtStart ==
    /\ pc = "start"
    /\ outcome = None
    /\ escaped = None
    /\ all_data = <<>>
    /\ pages_scraped = 0
    /\ current_url = EmptyUrl
    /\ scraper_used = ""
    /\ page_num = 0
    /\ max_pages = 0
    /\ static_scraper = FALSE
    /\ dynamic_scraper = FALSE
    /\ detector = FALSE
    /\ scrapers_to_try = <<>>
    /\ try_idx = 0
    /\ last_error = None
    /\ attempt = 0
    /\ fp_result = NoFetch
    /\ exc = None
    /\ recommended = ""
    /\ fetch_calls = <<>>
    /\ saf_calls = 0
    /\ page_fetches = <<>>
    /\ net_calls = {}
    /\ LimiterInit(rate_limiter)
    /\ arg = None
    /\ ret = None
    /\ Unused

Init == request \in Requests /\ AtStart

engine_vars == <<all_data, pages_scraped, current_url, scraper_used, page_num, max_pages>>
factory_vars == <<static_scraper, dynamic_scraper, detector>>
saf_vars == <<scrapers_to_try, try_idx, last_error, recommended>>
fetch_vars == <<attempt, fp_result, fetch_calls, net_calls>>

----------------------------------------------------------------------------
(* ScrapingEngine.scrape: validation (lines 41-72) *)

\* a variant that checks only that the URL is not empty
UrlValid_NonEmptyOnly(r) == r.url # EmptyUrl

\* not (not request.url or not request.url.startswith(('http://', 'https://')))
UrlValid(r) == r.url # EmptyUrl /\ StartsWithHttp(r.url)

\* a variant without the check of the field list
FieldsValid_Unchecked(r) == TRUE

\* not (not request.fields)
FieldsValid(r) == r.fields # <<>>

\* request.pagination.max_pages if request.pagination and
\* request.pagination.enabled else 1
MaxPagesOf(r) == IF PaginationEnabled(r) THEN Get(r.pagination).max_pages ELSE 1

Validate ==
    /\ pc = "start"
    /\ IF ~UrlValid(request)
       THEN /\ outcome' = Some(ErrorResponse("INVALID_URL",
                                "URL must start with http:// or https://",
                                ErrorDetails(Some(request.url), None, None)))
            /\ pc' = "done"
            /\ UNCHANGED engine_vars
       ELSE IF ~FieldsValid(request)
       THEN /\ outcome' = Some(ErrorResponse("NO_FIELDS",
                                "At least one extraction field is required", None))
            /\ pc' = "done"
            /\ UNCHANGED engine_vars
       ELSE /\ all_data' = <<>>
            /\ pages_scraped' = 0
            /\ current_url' = request.url
            /\ scraper_used' = ""
            /\ max_pages' = MaxPagesOf(request)
            /\ page_num' = 0
            /\ pc' = "loop"
            /\ UNCHANGED outcome
    /\ UNCHANGED <<request, escaped, exc, saf_calls, page_fetches>>
    /\ UNCHANGED <<limiter_vars, call_vars, lifecycle_vars>>
    /\ UNCHANGED <<factory_vars, saf_vars, fetch_vars>>

\* a variant that runs the loop once too often
LoopContinues_OffByOne(n, m) == n <= m

\* a variant that keeps fetching for as long as pages come back
LoopContinues_Unbounded(n, m) == TRUE

\* for page_num in range(max_pages): one more iteration, or the loop is over
LoopContinues(n, m) == n < m

LoopHead ==
    /\ pc = "loop"
    /\ IF LoopContinues(page_num, max_pages)
       THEN /\ pc' = "select"
            /\ saf_calls' = saf_calls + 1
       ELSE /\ pc' = "normalize"
            /\ UNCHANGED saf_calls
    /\ UNCHANGED <<request, outcome, escaped, exc, page_fetches>>
    /\ UNCHANGED <<limiter_vars, call_vars, lifecycle_vars>>
    /\ UNCHANGED <<engine_vars, factory_vars, saf_vars, fetch_vars>>

----------------------------------------------------------------------------
(* ScraperFactory.scrape_with_fallback: the candidates (lines 112-132) *)

Candidate(scraper, name) == [scraper |-> scraper, name |-> name]

Other(scraper) == IF scraper = DYNAMIC THEN STATIC ELSE DYNAMIC

\* a variant that labels the second candidate like a first one
FallbackName_Plain(scraper) == scraper

\* the label of the second candidate
FallbackName(scraper) ==
    IF scraper = STATIC THEN "static (fallback)" ELSE "dynamic (fallback)"

\* a variant whose AUTO branch falls back to the scraper it tried first
ScrapersToTry_SameTwice(primary_type, auto_scraper) ==
    IF primary_type = STATIC
    THEN <<Candidate(STATIC, "static"), Candidate(DYNAMIC, "dynamic (fallback)")>>
    ELSE IF primary_type = DYNAMIC
    THEN <<Candidate(DYNAMIC, "dynamic"), Candidate(STATIC, "static (fallback)")>>
    ELSE <<Candidate(auto_scraper, auto_scraper),
           Candidate(auto_scraper, "dynamic (fallback)")>>

\* scrapers_to_try for an explicit primary_type, and for AUTO given the
\* scraper get_auto_scraper returned (a scraper is identified by its .name)
ScrapersToTry(primary_type, auto_scraper) ==
    IF primary_type = STATIC
    THEN <<Candidate(STATIC, "static"), Candidate(DYNAMIC, FallbackName(DYNAMIC))>>
    ELSE IF primary_type = DYNAMIC
    THEN <<Candidate(DYNAMIC, "dynamic"), Candidate(STATIC, FallbackName(STATIC))>>
    ELSE <<Candidate(auto_scraper, auto_scraper),
           Candidate(Other(auto_scraper), FallbackName(Other(auto_scraper)))>>

\* PageTypeDetector.detect as scrape_with_fallback sees it: the
\* recommendation of the analysis, DYNAMIC when the preliminary fetch or the
\* analysis raised
DetectOutcomes == {STATIC, DYNAMIC, "error"}
Detect(d) == IF d = "error" THEN DYNAMIC ELSE d

\* get_auto_scraper: the scraper for the detector's recommendation
AutoScraper(recommended_scraper) ==
    IF recommended_scraper = DYNAMIC THEN DYNAMIC ELSE STATIC

SelectExplicit ==
    /\ pc = "select"
    /\ request.scraper_type # AUTO
    /\ scrapers_to_try' = ScrapersToTry(request.scraper_type, "")
    /\ static_scraper' = TRUE
    /\ dynamic_scraper' = TRUE
    /\ recommended' = ""
    /\ last_error' = None
    /\ try_idx' = 1
    /\ fetch_calls' = <<>>
    /\ pc' = "try"
    /\ UNCHANGED <<request, outcome, escaped, exc, saf_calls, detector, page_fetches>>
    /\ UNCHANGED <<limiter_vars, call_vars, lifecycle_vars>>
    /\ UNCHANGED <<engine_vars, attempt, fp_result, net_calls>>

SelectAuto ==
    /\ pc = "select"
    /\ request.scraper_type = AUTO
    /\ \E d \in DetectOutcomes :
         /\ recommended' = Detect(d)
         /\ scrapers_to_try' = ScrapersToTry(AUTO, AutoScraper(Detect(d)))
    /\ detector' = TRUE
    /\ net_calls' = net_calls \cup {"detector"}
    /\ static_scraper' = TRUE
    /\ dynamic_scraper' = TRUE
    /\ last_error' = None
    /\ try_idx' = 1
    /\ fetch_calls' = <<>>
    /\ pc' = "try"
    /\ UNCHANGED <<request, outcome, escaped, exc, saf_calls, page_fetches>>
    /\ UNCHANGED <<limiter_vars, call_vars, lifecycle_vars>>
    /\ UNCHANGED <<engine_vars, attempt, fp_result>>

----------------------------------------------------------------------------
(* scrape_with_fallback: the loop over the candidates (lines 132-141) *)

\* the record of one fetch_page call: the scraper and label, the attempts
\* made, whether every failed attempt was a timeout, the class of the last
\* attempt's exception, and whether the call returned or what it raised
FetchCall(c) ==
    [scraper |-> c.scraper, name |-> c.name, attempts |-> 0, timeouts |-> TRUE,
     last_type |-> "", ended |-> FALSE, ok |-> FALSE, raised |-> None]

\* raise last_error or Exception("All scrapers failed")
RaisedByFallback(err) ==
    IF IsNone(err) THEN Exc("Exception", "", "factory") ELSE Get(err)

TryNext ==
    /\ pc = "try"
    /\ IF try_idx <= Len(scrapers_to_try)
       THEN /\ attempt' = 1
            /\ fetch_calls' = Append(fetch_calls, FetchCall(scrapers_to_try[try_idx]))
            /\ pc' = "attempt"
            /\ UNCHANGED exc
       ELSE /\ exc' = Some(RaisedByFallback(last_error))
            /\ pc' = "except"
            /\ UNCHANGED <<attempt, fetch_calls>>
    /\ UNCHANGED <<request, outcome, escaped, saf_calls, fp_result, net_calls, page_fetches>>
    /\ UNCHANGED <<limiter_vars, call_vars, lifecycle_vars>>
    /\ UNCHANGED <<engine_vars, factory_vars, saf_vars>>

----------------------------------------------------------------------------
(* fetch_page under tenacity's @retry (static_scraper.py 74-111,           *)
(* dynamic_scraper.py 58-102)                                               *)

\* tenacity, after an attempt that raised an exception of class `type`: the
\* retry predicate decides first (a class it does not retry is re-raised as
\* it is); then stop_after_attempt; reraise is not set, so when the attempts
\* are used up the call raises RetryError wrapping the last attempt
StaticOnFailure(attempt_number, type) ==
    IF ~StaticRetries(type) THEN "raise"
    ELSE IF attempt_number >= StaticStopAfterAttempt THEN "retry_error"
    ELSE "again"

DynamicOnFailure(attempt_number, type) ==
    IF ~DynamicRetries(type) THEN "raise"
    ELSE IF attempt_number >= DynamicStopAfterAttempt THEN "retry_error"
    ELSE "again"

\* the exception a fetch_page call raises to its caller
RaisedByFetch(decision, type, scraper) ==
    IF decision = "retry_error" THEN Exc("RetryError", type, scraper)
    ELSE Exc(type, "", scraper)

CurrentCall == fetch_calls[Len(fetch_calls)]

AttemptSucceeds(doc) ==
    /\ fp_result' = [ok |-> TRUE, html |-> Some(doc), error |-> None]
    /\ fetch_calls' = [fetch_calls EXCEPT ![Len(fetch_calls)] =
                         [@ EXCEPT !.attempts = attempt, !.ended = TRUE, !.ok = TRUE]]
    /\ pc' = "returned"
    /\ UNCHANGED attempt

AttemptFails(decision, type) ==
    LET call == [CurrentCall EXCEPT !.attempts = attempt,
                                    !.timeouts = @ /\ type \in TimeoutTypes,
                                    !.last_type = type]
    IN  IF decision = "again"
        THEN /\ attempt' = attempt + 1
             /\ fetch_calls' = [fetch_calls EXCEPT ![Len(fetch_calls)] = call]
             /\ UNCHANGED <<fp_result, pc>>
        ELSE LET e == RaisedByFetch(decision, type, call.scraper)
             IN  /\ fp_result' = [ok |-> FALSE, html |-> None, error |-> Some(e)]
                 /\ fetch_calls' = [fetch_calls EXCEPT ![Len(fetch_calls)] =
                                      [call EXCEPT !.ended = TRUE, !.raised = Some(e)]]
                 /\ pc' = "raised"
                 /\ UNCHANGED attempt

StaticAttempt ==
    /\ pc = "attempt"
    /\ CurrentCall.scraper = STATIC
    /\ net_calls' = net_calls \cup {STATIC}
    /\ \/ \E doc \in Docs : AttemptSucceeds(doc)
       \/ \E type \in StaticAttemptErrors :
            AttemptFails(StaticOnFailure(attempt, type), type)
    /\ UNCHANGED <<request, outcome, escaped, exc, saf_calls, page_fetches>>
    /\ UNCHANGED <<limiter_vars, call_vars, lifecycle_vars>>
    /\ UNCHANGED <<engine_vars, factory_vars, saf_vars>>

DynamicAttempt ==
    /\ pc = "attempt"
    /\ CurrentCall.scraper = DYNAMIC
    /\ net_calls' = net_calls \cup {DYNAMIC}
    /\ \/ \E doc \in Docs : AttemptSucceeds(doc)
       \/ \E type \in DynamicAttemptErrors :
            AttemptFails(DynamicOnFailure(attempt, type), type)
    /\ UNCHANGED <<request, outcome, escaped, exc, saf_calls, page_fetches>>
    /\ UNCHANGED <<limiter_vars, call_vars, lifecycle_vars>>
    /\ UNCHANGED <<engine_vars, factory_vars, saf_vars>>

\* a variant that keeps the first error
NextLastError_KeepFirst(old, e) == IF IsNone(old) THEN Some(e) ELSE old

\* except Exception as e: last_error = e; continue
NextLastError(old, e) == Some(e)

FallbackCatch ==
    /\ pc = "raised"
    /\ last_error' = NextLastError(last_error, Get(fp_result.error))
    /\ try_idx' = try_idx + 1
    /\ fp_result' = NoFetch
    /\ pc' = "try"
    /\ UNCHANGED <<request, outcome, escaped, exc, saf_calls, page_fetches>>
    /\ UNCHANGED <<limiter_vars, call_vars, lifecycle_vars>>
    /\ UNCHANGED <<engine_vars, factory_vars, scrapers_to_try, recommended>>
    /\ UNCHANGED <<attempt, fetch_calls, net_calls>>

----------------------------------------------------------------------------
(* ScrapingEngine.scrape: one page (lines 76-102) *)

\* _find_next_page raises when soup.select_one gets a malformed selector
FindNextRaises(selector) == ~IsNone(selector) /\ Get(selector) = BadSelector

\* a variant that answers with the current page when there is no next link
find_next_page_SamePage(html, selector, url) ==
    IF IsNone(selector) \/ IsNone(html.next) THEN Some(url)
    ELSE Some(urljoin(url, Get(html.next)))

\* _find_next_page(html, selector, current_url)
find_next_page(html, selector, url) ==
    IF IsNone(selector) THEN None
    ELSE IF ~IsNone(html.next) THEN Some(urljoin(url, Get(html.next)))
    ELSE None

\* request.pagination and request.pagination.enabled and page_num < max_pages - 1
LooksForNextPage(r, n, m) == PaginationEnabled(r) /\ n < m - 1

\* scraper_used = scraper_name
NextScraperUsed(old, scraper_name) == scraper_name

\* the record of one scrape_with_fallback call that returned: the label it
\* returned, whether it was the second candidate's, and whether the first
\* candidate's attempts had all timed out
PageFetch(name, made) ==
    [name |-> name, fallback |-> Len(made) = 2,
     after_timeout |-> Len(made) = 2 /\ made[1].timeouts]

EnginePage ==
    /\ pc = "returned"
    /\ LET html == Get(fp_result.html)
           name == scrapers_to_try[try_idx].name
           selector == Get(request.pagination).next_page_selector
       IN  /\ scraper_used' = NextScraperUsed(scraper_used, name)
           /\ pages_scraped' = pages_scraped + 1
           /\ static_scraper' = TRUE
           /\ fp_result' = NoFetch
           /\ page_fetches' = Append(page_fetches, PageFetch(name, fetch_calls))
           /\ IF ExtractRaises(request.container_selector)
              THEN /\ exc' = Some(Exc("SelectorSyntaxError", "", "extract_data"))
                   /\ pc' = "except"
                   /\ UNCHANGED <<all_data, current_url, page_num>>
              ELSE /\ all_data' = all_data \o
                        extract_data(html, request.fields, request.container_selector)
                   /\ IF LooksForNextPage(request, page_num, max_pages)
                      THEN IF FindNextRaises(selector)
                           THEN /\ exc' = Some(Exc("SelectorSyntaxError", "", "_find_next_page"))
                                /\ pc' = "except"
                                /\ UNCHANGED <<current_url, page_num>>
                           ELSE LET next_url == find_next_page(html, selector, current_url)
                                IN  IF ~IsNone(next_url)
                                    THEN /\ current_url' = Get(next_url)
                                         /\ page_num' = page_num + 1
                                         /\ pc' = "loop"
                                         /\ UNCHANGED exc
                                    ELSE /\ pc' = "normalize"
                                         /\ UNCHANGED <<current_url, page_num, exc>>
                      ELSE /\ page_num' = page_num + 1
                           /\ pc' = "loop"
                           /\ UNCHANGED <<current_url, exc>>
    /\ UNCHANGED <<request, outcome, escaped, saf_calls, max_pages>>
    /\ UNCHANGED <<limiter_vars, call_vars, lifecycle_vars>>
    /\ UNCHANGED <<dynamic_scraper, detector, saf_vars, attempt, fetch_calls, net_calls>>

----------------------------------------------------------------------------
(* ScrapingEngine.scrape: the success return (lines 104-120) *)

Finish ==
    /\ pc = "normalize"
    /\ outcome' = Some(SuccessResponse(request.url, scraper_used,
                                       normalize(all_data,
                                           NormalizerBase(request.url, current_url)),
                                       pages_scraped))
    /\ pc' = "done"
    /\ UNCHANGED <<request, escaped, exc, saf_calls, page_fetches>>
    /\ UNCHANGED <<limiter_vars, call_vars, lifecycle_vars>>
    /\ UNCHANGED <<engine_vars, factory_vars, saf_vars, fetch_vars>>

----------------------------------------------------------------------------
(* ScrapingEngine.scrape: the except clauses (lines 122-139) *)

Handle ==
    /\ pc = "except"
    /\ LET e == Get(exc)
       IN  IF IsAsyncioTimeout(e)
           THEN /\ outcome' = Some(ErrorResponse("TIMEOUT",
                                    "Request timed out after {timeout} seconds",
                                    ErrorDetails(Some(request.url), Some(request.timeout), None)))
                /\ UNCHANGED escaped
           ELSE IF IsException(e)
           THEN /\ outcome' = Some(ErrorResponse("SCRAPE_ERROR", Str(e),
                                    ErrorDetails(Some(request.url), None, Some(e.type))))
                /\ UNCHANGED escaped
           ELSE /\ escaped' = exc
                /\ UNCHANGED outcome
    /\ pc' = "done"
    /\ UNCHANGED <<request, exc, saf_calls, page_fetches>>
    /\ UNCHANGED <<limiter_vars, call_vars, lifecycle_vars>>
    /\ UNCHANGED <<engine_vars, factory_vars, saf_vars, fetch_vars>>

----------------------------------------------------------------------------
(* The specification *)

Next ==
    \/ Validate
    \/ LoopHead
    \/ SelectExplicit
    \/ SelectAuto
    \/ TryNext
    \/ StaticAttempt
    \/ DynamicAttempt
    \/ FallbackCatch
    \/ EnginePage
    \/ Finish
    \/ Handle

Spec == Init /\ [][Next]_vars

----------------------------------------------------------------------------
(* RateLimiter under concurrent callers.  The callers are asyncio tasks of  *)
(* one event loop: a task runs alone from one await to the next, so each    *)
(* action is the code between two suspension points.  asyncio.sleep(d)     *)
(* returns at some time at least d after it was called.                    *)

\* the slots of the objects that are referenced: by the map, or by the
\* local variable `state` of a running call
Referenced(ds, tks) ==
    ({ds[d] : d \in Domains} \cup {tks[t].state : t \in Tasks}) \ {0}

\* an object nothing references any more is freed: its slot is as new
Collect(sts, ds, tks) ==
    [i \in Slots |-> IF i \in Referenced(ds, tks) THEN sts[i] ELSE DomainState]

\* _get_state(domain): the DomainState of the domain, created in a free
\* slot if absent; the map and the slot of the state afterwards
get_state(domain) ==
    IF domain_states[domain] # 0
    THEN [domain_states |-> domain_states, state |-> domain_states[domain]]
    ELSE LET free == Slots \ Referenced(domain_states, tasks)
             slot == CHOOSE i \in free : \A j \in free : i <= j
         IN  [domain_states |-> [domain_states EXCEPT ![domain] = slot],
              state |-> slot]

\* lines 93-94: stamp the state and return
Stamp(sts, task, t) ==
    /\ tasks' = [tasks EXCEPT ![t] = Idle]
    /\ states' = Collect([sts EXCEPT ![task.state] =
                             [@ EXCEPT !.last_request_time = now,
                                       !.request_count = @ + 1]],
                         domain_states', tasks')

\* lines 80-94: compute the delay, then sleep or stamp at once
Pace(sts, task, t) ==
    LET state == sts[task.state]
        delay == Delay(limiter, state.request_count)
        time_since_last == task.current_time - state.last_request_time
    IN  IF time_since_last < delay
        THEN /\ states' = sts
             /\ tasks' = [tasks EXCEPT ![t] =
                            [task EXCEPT !.pc = "pacing", !.delay = delay,
                                         !.wake = now + PacingSleep(delay, time_since_last)]]
        ELSE Stamp(sts, [task EXCEPT !.delay = delay], t)

\* wait_for_slot, from the call to its first suspension point or its return
WaitForSlot(t, url) ==
    /\ pc = "idle"
    /\ tasks[t].pc = "idle"
    /\ LET got == get_state(get_domain(url))
           state == states[got.state]
           task == [Idle EXCEPT !.domain = get_domain(url), !.state = got.state,
                                !.current_time = now]
       IN  /\ state.request_count < MaxCount
           /\ domain_states' = got.domain_states
           /\ IF state.blocked /\ now < state.blocked_until
              THEN /\ states' = states
                   /\ tasks' = [tasks EXCEPT ![t] =
                                  [task EXCEPT !.pc = "cooldown",
                                               !.wake = now + (state.blocked_until - now)]]
              ELSE Pace(states, task, t)
    /\ UNCHANGED <<limiter, now, scrape_vars, call_vars, lifecycle_vars>>

\* wait_for_slot, from the end of the cooldown sleep (line 78) on
AfterCooldown(t) ==
    /\ pc = "idle"
    /\ tasks[t].pc = "cooldown"
    /\ now >= tasks[t].wake
    /\ UNCHANGED <<limiter, now, domain_states, scrape_vars, call_vars, lifecycle_vars>>
    /\ Pace([states EXCEPT ![tasks[t].state] = [@ EXCEPT !.blocked = FALSE]],
            tasks[t], t)

\* wait_for_slot, from the end of the pacing sleep (line 93) on
AfterPacing(t) ==
    /\ pc = "idle"
    /\ tasks[t].pc = "pacing"
    /\ now >= tasks[t].wake
    /\ UNCHANGED <<limiter, now, domain_states, scrape_vars, call_vars, lifecycle_vars>>
    /\ Stamp(states, tasks[t], t)

\* mark_blocked(url), called by a task that is not suspended
MarkBlocked(t, url) ==
    /\ pc = "idle"
    /\ tasks[t].pc = "idle"
    /\ LET got == get_state(get_domain(url))
       IN  /\ domain_states' = got.domain_states
           /\ states' = [states EXCEPT ![got.state] =
                            mark_blocked(@, now, limiter)]
    /\ UNCHANGED <<limiter, now, tasks, scrape_vars, call_vars, lifecycle_vars>>

\* is_blocked(url), called by a task that is not suspended
IsBlocked(t, url) ==
    /\ pc = "idle"
    /\ tasks[t].pc = "idle"
    /\ LET got == get_state(get_domain(url))
       IN  /\ domain_states' = got.domain_states
           /\ states' = [states EXCEPT ![got.state] =
                            is_blocked(@, now).state]
    /\ UNCHANGED <<limiter, now, tasks, scrape_vars, call_vars, lifecycle_vars>>

\* reset_domain(url), called by a task that is not suspended
ResetDomain(t, url) ==
    /\ pc = "idle"
    /\ tasks[t].pc = "idle"
    /\ domain_states[get_domain(url)] # 0
    /\ domain_states' = [domain_states EXCEPT ![get_domain(url)] = 0]
    /\ states' = Collect(states, domain_states', tasks)
    /\ UNCHANGED <<limiter, now, tasks, scrape_vars, call_vars, lifecycle_vars>>

\* time passes
Tick ==
    /\ pc = "idle"
    /\ now < MaxTime
    /\ now' = now + 1
    /\ UNCHANGED <<limiter, states, domain_states, tasks, scrape_vars, call_vars, lifecycle_vars>>

\* the steps of task t when it calls the limiter with the given URLs
TaskNext(t, urls) ==
    \/ \E url \in urls : WaitForSlot(t, url)
    \/ AfterCooldown(t)
    \/ AfterPacing(t)
    \/ \E url \in urls : MarkBlocked(t, url)
    \/ \E url \in urls : IsBlocked(t, url)
    \/ \E url \in urls : ResetDomain(t, url)

\* the URLs of one domain
UrlsOf(domain) == {url \in LimiterUrls : LowerHost(url.host) = domain}

\* a process in which no scrape runs and the limiter is constructed with
\* one of the configurations
LimiterProcess ==
    /\ request = [url |-> EmptyUrl, fields |-> <<>>, container_selector |-> None,
                  scraper_type |-> AUTO, pagination |-> None,
                  timeout |-> DefaultTimeout]
    /\ pc = "idle"
    /\ outcome = None
    /\ escaped = None
    /\ all_data = <<>>
    /\ pages_scraped = 0
    /\ current_url = EmptyUrl
    /\ scraper_used = ""
    /\ page_num = 0
    /\ max_pages = 0
    /\ static_scraper = FALSE
    /\ dynamic_scraper = FALSE
    /\ detector = FALSE
    /\ scrapers_to_try = <<>>
    /\ try_idx = 0
    /\ last_error = None
    /\ attempt = 0
    /\ fp_result = NoFetch
    /\ exc = None
    /\ recommended = ""
    /\ fetch_calls = <<>>
    /\ saf_calls = 0
    /\ page_fetches = <<>>
    /\ net_calls = {}
    /\ arg = None
    /\ ret = None
    /\ Unused
    /\ \E l \in Limiters : LimiterInit(l)

\* the limiter called by one task only: every call runs without interference
SoloNext == Tick \/ TaskNext("t1", LimiterUrls)

SoloSpec == LimiterProcess /\ [][SoloNext]_vars

\* the limiter called by concurrent tasks for URLs of one domain
LimiterNext == Tick \/ \E t \in Tasks : TaskNext(t, UrlsOf("x.test"))

LimiterSpec == LimiterProcess /\ [][LimiterNext]_vars

\* the limiter called by two concurrent tasks, each for a domain of its own
PairNext ==
    \/ Tick
    \/ TaskNext("t1", UrlsOf("x.test"))
    \/ TaskNext("t2", UrlsOf("y.test"))

PairSpec == LimiterProcess /\ [][PairNext]_vars

----------------------------------------------------------------------------
(* Direct calls of the components: no scrape runs, the limiter is at rest *)

idle_vars == <<request, outcome, escaped, engine_vars, factory_vars,
               saf_vars, fetch_vars, exc, saf_calls, page_fetches,
               limiter_vars>>

standby_vars == <<idle_vars, lifecycle_vars>>

Standby ==
    /\ request = [url |-> EmptyUrl, fields |-> <<>>, container_selector |-> None,
                  scraper_type |-> AUTO, pagination |-> None,
                  timeout |-> DefaultTimeout]
    /\ outcome = None
    /\ escaped = None
    /\ all_data = <<>>
    /\ pages_scraped = 0
    /\ current_url = EmptyUrl
    /\ scraper_used = ""
    /\ page_num = 0
    /\ max_pages = 0
    /\ static_scraper = FALSE
    /\ dynamic_scraper = FALSE
    /\ detector = FALSE
    /\ scrapers_to_try = <<>>
    /\ try_idx = 0
    /\ last_error = None
    /\ attempt = 0
    /\ fp_result = NoFetch
    /\ exc = None
    /\ recommended = ""
    /\ fetch_calls = <<>>
    /\ saf_calls = 0
    /\ page_fetches = <<>>
    /\ net_calls = {}
    /\ LimiterInit(rate_limiter)

----------------------------------------------------------------------------
(* DataNormalizer(base_url).normalize(data, dedupe), called on a record    *)
(* list and then on its own output                                         *)

\* field names: two plain ones, a URL field and a price field
KeyT == "t"
KeyS == "s"
KeyUrl == "Url"
KeyFee == "Fee"

\* texts over ordinary characters, whitespace, zero-width characters
\* (ZeroWidth) and the curly quotes U+201C and U+201D
TextAB == <<"a", " ", "b">>
TextABRaw == <<" ", "a", "\t", " ", "b", "\n">>
TextABZero == <<"a", " ", "<200b>", " ", "b">>
TextZeroA == <<"<feff>", " ", "a">>
TextZero == <<"<200c>", "<200d>">>
TextCurly == <<"<201c>", "a", "<201d>">>
TextRel == <<"p">>
TextRoot == <<"/", "p">>
TextAbs == <<"h", "t", "t", "p", "s", ":", "/", "/", "y", "/", "q">>
TextFee == <<"1", " ", "2">>
BaseUrlText == <<"h", "t", "t", "p", ":", "/", "/", "h", "/", "d", "/", "e">>

NormalizerItems ==
    { (KeyT :> None) @@ (KeyS :> Some(<<>>)),
      (KeyT :> Some(TextABRaw)),
      (KeyT :> Some(TextAB)),
      (KeyT :> Some(TextABZero)),
      (KeyT :> Some(TextZeroA)) @@ (KeyS :> None),
      (KeyT :> Some(TextZero)) @@ (KeyS :> List(<<None>>)),
      (KeyT :> List(<<Some(TextBlank), None, Some(TextABRaw)>>)),
      (KeyT :> Some(TextCurly)),
      (KeyUrl :> Some(TextRel)) @@ (KeyFee :> Some(TextFee)),
      (KeyUrl :> Some(TextRoot)) @@ (KeyFee :> None),
      (KeyUrl :> List(<<Some(TextAbs), Some(TextRel)>>)),
      (KeyFee :> Some(TextBlank)) @@ (KeyT :> Some(<<>>)) }

NormalizerData == UNION { [1..n -> NormalizerItems] : n \in 0..MaxRecords }

NormalizerProcess ==
    /\ Unused
    /\ Standby
    /\ pc = "normalize"
    /\ arg \in [data : NormalizerData, dedupe : BOOLEAN,
                 base_url : {Some(BaseUrlText)}]
    /\ ret = None

\* normalizer.normalize(data, dedupe)
NormalizeCall ==
    /\ pc = "normalize"
    /\ ret' = Some(Normalize(arg.data, arg.dedupe, arg.base_url))
    /\ pc' = "normalized"
    /\ UNCHANGED <<arg, standby_vars>>

\* the same normalizer called on what it returned
NormalizeAgain ==
    /\ pc = "normalized"
    /\ arg' = [arg EXCEPT !.data = Get(ret)]
    /\ ret' = Some(Normalize(Get(ret), arg.dedupe, arg.base_url))
    /\ pc' = "renormalized"
    /\ UNCHANGED standby_vars

NormalizerNext == NormalizeCall \/ NormalizeAgain

NormalizerSpec == NormalizerProcess /\ [][NormalizerNext]_vars

----------------------------------------------------------------------------
(* BaseScraper.extract_data(html, fields, container_selector), called on a *)
(* document                                                                *)

Href == "href"
TextDefault == <<"n">>
TextPath == <<"/", "x">>

\* matched elements: text and an href; blank text and an empty href; text
\* and no attribute
ElA == Matched(TextARaw, [href |-> TextPath])
ElBlank == Matched(TextBlank, [href |-> <<>>])
ElB == Matched(TextB, <<>>)

\* containers with two matches, with none, and with one that is blank
ExtractorContainers ==
    { [matches |-> <<ElB, ElA>>], [matches |-> <<>>], [matches |-> <<ElBlank>>] }

ExtractorDocs == UNION { [1..n -> ExtractorContainers] : n \in 0..MaxContainers }

\* fields: a text, all texts, an attribute, a text with a default, and a
\* field whose selector is malformed
ExtractorFields ==
    { Field("t", GoodSelector, None, FALSE, None),
      Field("m", GoodSelector, None, TRUE, None),
      Field("h", GoodSelector, Some(Href), FALSE, None),
      Field("t", GoodSelector, None, FALSE, Some(TextDefault)),
      Field("x", BadSelector, None, TRUE, Some(TextDefault)) }

ExtractorSchemas == UNION { [1..n -> ExtractorFields] : n \in 0..MaxFields }

ExtractorProcess ==
    /\ Unused
    /\ Standby
    /\ pc = "extract"
    /\ arg \in [html : ExtractorDocs, fields : ExtractorSchemas,
                 container_selector : Selectors \cup {Some("")}]
    /\ ret = None

\* extract_data returns
ExtractCall ==
    /\ pc = "extract"
    /\ ~ExtractRaises(arg.container_selector)
    /\ ret' = Some(ExtractData(arg.html, arg.fields, arg.container_selector))
    /\ pc' = "extracted"
    /\ UNCHANGED <<arg, standby_vars>>

\* extract_data raises: soup.select on a malformed container selector
ExtractRaise ==
    /\ pc = "extract"
    /\ ExtractRaises(arg.container_selector)
    /\ pc' = "extract_raised"
    /\ UNCHANGED <<arg, ret, standby_vars>>

ExtractorNext == ExtractCall \/ ExtractRaise

ExtractorSpec == ExtractorProcess /\ [][ExtractorNext]_vars

----------------------------------------------------------------------------
(* PageTypeDetector.detect(url)                                            *)
(*                                                                         *)
(* A page is given by what the analysis looks at: how many of the dynamic  *)
(* and of the static patterns match it, and the length of its text.  A     *)
(* confidence is the fraction num / den with den > 0.                      *)

Ratio(num, den) == [num |-> num, den |-> den]

Pages ==
    [dynamic_hits : 0..DynamicIndicatorCount,
     static_hits : 0..StaticIndicatorCount,
     text_len : {0, LowDensity - 1, LowDensity, HighDensity, HighDensity + 1}]

\* _analyze_html, lines 100-125: dynamic_score and static_score
Scores(html) ==
    [dynamic_score |-> html.dynamic_hits
                         + (IF html.text_len < LowDensity THEN 2 ELSE 0),
     static_score |-> html.static_hits
                         + (IF html.text_len >= LowDensity /\ html.text_len > HighDensity
                            THEN 1 ELSE 0)]

\* min(0.95, confidence + 0.3) without the min
Confidence_Uncapped(difference, total_checks) ==
    Ratio(10 * difference + 3 * total_checks, 10 * total_checks)

\* lines 134-135: abs(dynamic_score - static_score) / total_checks, plus
\* 0.3, capped at 0.95
Confidence(difference, total_checks) ==
    IF 100 * (10 * difference + 3 * total_checks) < 95 * (10 * total_checks)
    THEN Ratio(10 * difference + 3 * total_checks, 10 * total_checks)
    ELSE Ratio(95, 100)

\* _analyze_html, lines 127-137: the decision; one indicator per hit
Decide(dynamic_score, static_score) ==
    LET total_checks == dynamic_score + static_score
        difference == IF dynamic_score >= static_score
                      THEN dynamic_score - static_score
                      ELSE static_score - dynamic_score
    IN  IF total_checks = 0
        THEN [is_dynamic |-> FALSE, confidence |-> Ratio(5, 10),
              indicators |-> << <<"No clear indicators found", "">> >>]
        ELSE [is_dynamic |-> dynamic_score > static_score,
              confidence |-> Confidence(difference, total_checks),
              indicators |->
                  [i \in 1..total_checks |->
                      IF i <= dynamic_score THEN <<"dynamic", "">>
                      ELSE <<"static", "">>]]

analyze_html(html) ==
    Decide(Scores(html).dynamic_score, Scores(html).static_score)

\* PageTypeDetectionResult
DetectionResult(is_dynamic, confidence, indicators, recommended_scraper) ==
    [is_dynamic |-> is_dynamic, confidence |-> confidence,
     indicators |-> indicators, recommended_scraper |-> recommended_scraper]

\* a handler that recommends the static scraper
DetectFallback_Static(e) ==
    DetectionResult(TRUE, Ratio(5, 10),
                    << <<"Detection failed", Str(e)>>, <<"Defaulting to static", "">> >>,
                    STATIC)

\* detect, lines 75-82: the result of the except branch
DetectFallback(e) ==
    DetectionResult(TRUE, Ratio(5, 10),
                    << <<"Detection failed", Str(e)>>, <<"Defaulting to dynamic", "">> >>,
                    DYNAMIC)

\* what _fetch_initial_html and _analyze_html can raise
DetectErrors ==
    { Exc(type, "", "_fetch_initial_html") : type \in StaticAttemptErrors }
        \cup { Exc("FeatureNotFound", "", "_analyze_html") }

DetectorProcess ==
    /\ Unused
    /\ Standby
    /\ pc = "detect"
    /\ arg \in [html : Pages, raises : {None} \cup {Some(e) : e \in DetectErrors}]
    /\ ret = None

\* detect, lines 64-74: the fetch and the analysis went through
DetectCall ==
    /\ pc = "detect"
    /\ IsNone(arg.raises)
    /\ LET analysis == analyze_html(arg.html)
       IN  ret' = Some(DetectionResult(analysis.is_dynamic, analysis.confidence,
                                       analysis.indicators,
                                       IF analysis.is_dynamic THEN DYNAMIC ELSE STATIC))
    /\ pc' = "detected"
    /\ UNCHANGED <<arg, standby_vars>>

\* detect, lines 75-82: the fetch or the analysis raised
DetectError ==
    /\ pc = "detect"
    /\ ~IsNone(arg.raises)
    /\ IF IsException(Get(arg.raises))
       THEN /\ ret' = Some(DetectFallback(Get(arg.raises)))
            /\ pc' = "detected"
       ELSE /\ ret' = None
            /\ pc' = "detect_raised"
    /\ UNCHANGED <<arg, standby_vars>>

DetectorNext == DetectCall \/ DetectError

DetectorSpec == DetectorProcess /\ [][DetectorNext]_vars

----------------------------------------------------------------------------
(* The life of the scrapers' sessions and browsers.  A task runs one call  *)
(* at a time; the code between two awaits is one step, and a call made by  *)
(* scrape_with_fallback or cleanup continues in its caller within the step *)
(* in which it ends.  A step is computed as the set of worlds it can lead  *)
(* to from the world it starts in.                                         *)

World == [factory |-> factory, scrapers |-> scrapers, resources |-> resources,
          calls |-> calls]

Become(w) ==
    /\ factory' = w.factory
    /\ scrapers' = w.scrapers
    /\ resources' = w.resources
    /\ calls' = w.calls
    /\ UNCHANGED <<pc, call_vars, idle_vars>>

\* the call of task t and the scraper it is made on
Call(w, t) == w.calls[t]
Self(w, t) == w.scrapers[w.calls[t].self]

\* task t runs no call, and the tasks have made fewer than most calls
Free(t, most) ==
    /\ calls[t].pc \in {"idle", "returned", "raised"}
    /\ calls["t1"].made + calls["t2"].made < most

\* the world in which task t makes one more call
Calling(t) == [World EXCEPT !.calls[t].made = @ + 1]

\* the record of a task between the steps of a call
Rest(w, t) == [NoCall EXCEPT !.made = Call(w, t).made]

\* task t calls op on scraper s (outer: the call that makes this one)
Begin(w, t, op, s, outer) ==
    [w EXCEPT !.calls[t] =
        [Rest(w, t) EXCEPT !.op = op, !.self = s, !.pc = "begin", !.attempt = 1,
                       !.outer = outer,
                       !.again = /\ op = "close"
                                 /\ IsNone(outer)
                                 /\ Call(w, t).op = "close"
                                 /\ Call(w, t).self = s
                                 /\ Call(w, t).pc = "returned"]]

\* a call of scrape_with_fallback or cleanup is over
Over(w, t, op, how) ==
    [w EXCEPT !.calls[t] = [Rest(w, t) EXCEPT !.op = op, !.pc = how]]

\* the call of task t returns or raises (how), and its caller goes on
RECURSIVE Ends(_, _, _)

\* a variant of the assignments of None in close that leaves the field as it is
Cleared_Kept(field) == field

\* self._session = None, self._context = None, self._browser = None,
\* self._playwright = None
Cleared(field) == None

(* StaticScraper (static_scraper.py) *)

\* _get_session (lines 68-72) and fetch_page up to session.get (lines 105-108)
GetSession(w, t) ==
    LET o == Self(w, t)
        r == w.resources
        id == r.opened + 1
    IN  IF IsNone(o._session) \/ Get(o._session) \notin r.sessions
        THEN IF r.opened < MaxSessions
             THEN {[w EXCEPT !.resources.opened = id,
                             !.resources.sessions = @ \cup {id},
                             !.scrapers[Call(w, t).self]._session = Some(id),
                             !.calls[t].pc = "get",
                             !.calls[t].n = id]}
             ELSE {}
        ELSE {[w EXCEPT !.calls[t].pc = "get", !.calls[t].n = Get(o._session)]}

\* tenacity (lines 74-78): an attempt raised aiohttp.ClientError or
\* asyncio.TimeoutError; the next attempt follows a sleep
StaticFails(w, t) ==
    IF Call(w, t).attempt < StaticStopAfterAttempt
    THEN {[w EXCEPT !.calls[t].pc = "get_session", !.calls[t].attempt = @ + 1,
                    !.calls[t].n = 0]}
    ELSE Ends(w, t, "raised")

\* session.get, raise_for_status and response.text (lines 108-111): the text
\* is returned if the session is still open; a transport error is retried,
\* another exception is raised as it is
GetDone(w, t) ==
    (IF Call(w, t).n \in w.resources.sessions THEN Ends(w, t, "returned") ELSE {})
        \cup StaticFails(w, t)
        \cup Ends(w, t, "raised")

\* StaticScraper.close up to its await (lines 115-116)
StaticClose(w, t) ==
    LET o == Self(w, t)
    IN  IF ~IsNone(o._session) /\ Get(o._session) \in w.resources.sessions
        THEN {[w EXCEPT !.calls[t].pc = "session_close",
                        !.calls[t].n = Get(o._session)]}
        ELSE Ends(w, t, "returned")

\* session.close() is over (lines 116-117), or it raised
SessionCloseDone(w, t) ==
    LET n == Call(w, t).n
    IN  Ends([w EXCEPT !.resources.sessions = @ \ {n},
                       !.scrapers[Call(w, t).self]._session = Cleared(@)],
             t, "returned")
            \cup Ends(w, t, "raised")

(* DynamicScraper (dynamic_scraper.py) *)

\* tenacity (lines 58-61): an attempt raised; every exception is retried,
\* after a sleep
DynamicFails(w, t) ==
    IF Call(w, t).attempt < DynamicStopAfterAttempt
    THEN {[w EXCEPT !.calls[t].pc = "ensure", !.calls[t].attempt = @ + 1,
                    !.calls[t].n = 0, !.calls[t].page = None,
                    !.calls[t].ok = FALSE]}
    ELSE Ends(w, t, "raised")

\* self._context.new_page() is called (line 81): an AttributeError when
\* self._context is None
CallNewPage(w, t) ==
    LET o == Self(w, t)
    IN  IF IsNone(o._context)
        THEN DynamicFails(w, t)
        ELSE {[w EXCEPT !.calls[t].pc = "new_page", !.calls[t].n = Get(o._context)]}

\* not (self._browser is None or not self._browser.is_connected()) (line 34)
Connected(o, r) == ~IsNone(o._browser) /\ Get(o._browser) \in r.browsers

\* fetch_page and _ensure_browser up to the first await (lines 79, 34-35);
\* the driver, the browser and the context of one pass carry its number
EnsureBrowser(w, t) ==
    LET r == w.resources
    IN  IF ~Connected(Self(w, t), r)
        THEN IF r.launches < MaxLaunches
             THEN {[w EXCEPT !.resources.launches = @ + 1,
                             !.calls[t].pc = "start",
                             !.calls[t].n = r.launches + 1]}
             ELSE {}
        ELSE CallNewPage(w, t)

\* async_playwright().start() is over (lines 35-36)
StartDone(w, t) ==
    LET n == Call(w, t).n
    IN  {[w EXCEPT !.resources.drivers = @ \cup {n},
                   !.scrapers[Call(w, t).self]._playwright = Some(n),
                   !.calls[t].pc = "launch"]}

\* chromium.launch is over (lines 36-47), or it raised
LaunchDone(w, t) ==
    LET n == Call(w, t).n
    IN  (IF n \in w.resources.drivers
         THEN {[w EXCEPT !.resources.browsers = @ \cup {n},
                         !.scrapers[Call(w, t).self]._browser = Some(n),
                         !.calls[t].pc = "new_context"]}
         ELSE {})
            \cup DynamicFails(w, t)

\* new_context is over (lines 47-53); it raises when the browser was closed
NewContextDone(w, t) ==
    LET n == Call(w, t).n
    IN  IF n \in w.resources.browsers
        THEN {[w EXCEPT !.resources.contexts = @ \cup {n},
                        !.scrapers[Call(w, t).self]._context = Some(n),
                        !.calls[t].pc = "init_script"]}
        ELSE DynamicFails(w, t)

\* add_init_script is over (lines 53-56, 81); it raises when the context
\* was closed
InitScriptDone(w, t) ==
    IF Call(w, t).n \in w.resources.contexts
    THEN CallNewPage(w, t)
    ELSE DynamicFails(w, t)

\* new_page is over (lines 81-85); it raises when the context was closed
NewPageDone(w, t) ==
    LET c == Call(w, t)
        page == [owner |-> t, attempt |-> c.attempt, context |-> c.n]
    IN  IF c.n \in w.resources.contexts
        THEN {[w EXCEPT !.resources.pages = @ \cup {page},
                        !.calls[t].page = Some(page),
                        !.calls[t].pc = "body"]}
        ELSE DynamicFails(w, t)

\* goto, wait_for_selector, _scroll_page, sleep and content (lines 85-99)
\* are over or one of them raised, and page.close() is called (line 102);
\* nothing succeeds on a page that was closed
BodyDone(w, t) ==
    LET open == Get(Call(w, t).page) \in w.resources.pages
    IN  {[w EXCEPT !.calls[t].pc = "page_close", !.calls[t].ok = ok] :
            ok \in (IF open THEN BOOLEAN ELSE {FALSE})}

\* a variant that closes the page only after the try block returned
ClosedOnExit_WhenReturned(ok, page) == IF ok THEN {page} ELSE {}

\* finally: await page.close() (lines 101-102)
ClosedOnExit(ok, page) == {page}

\* page.close() is over: return html (line 99), or the exception goes on
PageCloseDone(w, t) ==
    LET c == Call(w, t)
        w1 == [w EXCEPT !.resources.pages = @ \ ClosedOnExit(c.ok, Get(c.page)),
                        !.calls[t].page = None]
    IN  IF c.ok THEN Ends(w1, t, "returned") ELSE DynamicFails(w1, t)

\* DynamicScraper.close from its first, second or third if statement on, up
\* to the next await (lines 130-138)
CloseFrom(w, t, stage) ==
    LET o == Self(w, t)
    IN  IF stage <= 1 /\ ~IsNone(o._context)
        THEN {[w EXCEPT !.calls[t].pc = "context_close",
                        !.calls[t].n = Get(o._context)]}
        ELSE IF stage <= 2 /\ ~IsNone(o._browser)
        THEN {[w EXCEPT !.calls[t].pc = "browser_close",
                        !.calls[t].n = Get(o._browser)]}
        ELSE IF stage <= 3 /\ ~IsNone(o._playwright)
        THEN {[w EXCEPT !.calls[t].pc = "stop",
                        !.calls[t].n = Get(o._playwright)]}
        ELSE Ends(w, t, "returned")

\* the resources without context n and its pages
WithoutContext(r, n) ==
    [r EXCEPT !.contexts = @ \ {n}, !.pages = {p \in @ : p.context # n}]

\* the resources without browser n, its context and its pages
WithoutBrowser(r, n) == [WithoutContext(r, n) EXCEPT !.browsers = @ \ {n}]

\* the resources without driver n, its browser, context and pages
WithoutDriver(r, n) == [WithoutBrowser(r, n) EXCEPT !.drivers = @ \ {n}]

\* self._context.close() is over (lines 131-133), or it raised
ContextCloseDone(w, t) ==
    CloseFrom([w EXCEPT !.resources = WithoutContext(@, Call(w, t).n),
                        !.scrapers[Call(w, t).self]._context = Cleared(@)],
              t, 2)
        \cup Ends(w, t, "raised")

\* self._browser.close() is over (lines 134-136), or it raised
BrowserCloseDone(w, t) ==
    CloseFrom([w EXCEPT !.resources = WithoutBrowser(@, Call(w, t).n),
                        !.scrapers[Call(w, t).self]._browser = Cleared(@)],
              t, 3)
        \cup Ends(w, t, "raised")

\* self._playwright.stop() is over (lines 137-138), or it raised
StopDone(w, t) ==
    Ends([w EXCEPT !.resources = WithoutDriver(@, Call(w, t).n),
                   !.scrapers[Call(w, t).self]._playwright = Cleared(@)],
         t, "returned")
        \cup Ends(w, t, "raised")

(* calls of the two methods *)

\* scraper.fetch_page(url, timeout, wait_for_selector)
FetchPage(w, t, s, outer) ==
    LET w1 == Begin(w, t, "fetch_page", s, outer)
    IN  IF w.scrapers[s].name = "static"
        THEN GetSession(w1, t)
        ELSE EnsureBrowser(w1, t)

\* scraper.close()
Close(w, t, s, outer) ==
    LET w1 == Begin(w, t, "close", s, outer)
    IN  IF w.scrapers[s].name = "static"
        THEN StaticClose(w1, t)
        ELSE CloseFrom(w1, t, 1)

(* ScraperFactory (scraper_factory.py) *)

\* a variant of the getters that makes a new scraper at every call
Missing_Always(ref) == TRUE

\* cls._static_scraper is None, cls._dynamic_scraper is None (lines 32, 39)
Missing(ref) == IsNone(ref)

\* get_static_scraper (lines 30-34); the scraper returned is
\* Get(w.factory._static_scraper) of the world that results
get_static_scraper(w) ==
    IF Missing(w.factory._static_scraper)
    THEN [w EXCEPT !.scrapers = Append(@, StaticScraper),
                   !.factory._static_scraper = Some(Len(w.scrapers) + 1)]
    ELSE w

\* get_dynamic_scraper (lines 37-41)
get_dynamic_scraper(w) ==
    IF Missing(w.factory._dynamic_scraper)
    THEN [w EXCEPT !.scrapers = Append(@, DynamicScraper),
                   !.factory._dynamic_scraper = Some(Len(w.scrapers) + 1)]
    ELSE w

\* the frame of a scrape_with_fallback call: the scrapers to try and the
\* position of its for loop; of a cleanup call: which scraper it closes,
\* and (history) the scrapers the factory held when it was called
Frame(op, tries, idx) == [op |-> op, tries |-> tries, idx |-> idx]

\* scrape_with_fallback from the making of scrapers_to_try (lines 114-130)
\* to the first await of the first fetch_page (line 135)
TryScrapers(w, t, first) ==
    LET w1 == IF first = STATIC
              THEN get_dynamic_scraper(get_static_scraper(w))
              ELSE get_static_scraper(get_dynamic_scraper(w))
        static == Get(w1.factory._static_scraper)
        dynamic == Get(w1.factory._dynamic_scraper)
        tries == IF first = STATIC THEN <<static, dynamic>> ELSE <<dynamic, static>>
    IN  IF Len(w1.scrapers) <= MaxScrapers
        THEN FetchPage(w1, t, tries[1], Some(Frame("scrape_with_fallback", tries, 1)))
        ELSE {}

\* scrape_with_fallback(url, primary_type): with AUTO it awaits the detector
\* first (lines 125, 84-85)
scrape_with_fallback(w, t, primary_type) ==
    IF primary_type = AUTO
    THEN {[w EXCEPT !.calls[t] =
              [Rest(w, t) EXCEPT !.op = "scrape_with_fallback", !.pc = "detect"]]}
    ELSE TryScrapers(w, t, primary_type)

\* detector.detect is over (lines 85-90, 126-130)
DetectDone(w, t) ==
    UNION {TryScrapers(w, t, recommended_scraper) :
              recommended_scraper \in {STATIC, DYNAMIC}}

\* cleanup from its second if statement on (lines 149-150)
CleanupDynamic(w, t, held) ==
    IF ~IsNone(w.factory._dynamic_scraper)
    THEN Close(w, t, Get(w.factory._dynamic_scraper), Some(Frame("cleanup", held, 2)))
    ELSE {Over(w, t, "cleanup", "returned")}

\* the scrapers the factory holds
Held(w) ==
    {Get(ref) : ref \in {w.factory._static_scraper, w.factory._dynamic_scraper} \ {None}}

\* ScraperFactory.cleanup up to its first await (lines 146-150)
cleanup(w, t) ==
    IF ~IsNone(w.factory._static_scraper)
    THEN Close(w, t, Get(w.factory._static_scraper), Some(Frame("cleanup", Held(w), 1)))
    ELSE CleanupDynamic(w, t, Held(w))

Ends(w, t, how) ==
    LET c == Call(w, t)
    IN  IF IsNone(c.outer)
        THEN {[w EXCEPT !.calls[t] =
                  [Rest(w, t) EXCEPT !.op = c.op, !.self = c.self, !.pc = how,
                                 !.again = c.again]]}
        ELSE LET f == Get(c.outer)
             IN  IF f.op = "scrape_with_fallback"
                 THEN \* lines 133-141
                      IF how = "returned"
                      THEN \* return html, name; ScrapingEngine.scrape then
                           \* takes the static scraper for the extraction
                           \* (scraping_engine.py, lines 76-86)
                           LET w1 == get_static_scraper(w)
                           IN  IF Len(w1.scrapers) <= MaxScrapers
                               THEN {Over(w1, t, f.op, "returned")}
                               ELSE {}
                      ELSE IF f.idx < Len(f.tries)
                      THEN FetchPage(w, t, f.tries[f.idx + 1],
                                     Some(Frame(f.op, f.tries, f.idx + 1)))
                      ELSE {Over(w, t, f.op, "raised")}
                 ELSE \* lines 147-151
                      IF how = "raised"
                      THEN {Over(w, t, f.op, "raised")}
                      ELSE IF f.idx = 1
                      THEN CleanupDynamic([w EXCEPT !.factory._static_scraper = None],
                                          t, f.tries)
                      ELSE {Over([w EXCEPT !.factory._dynamic_scraper = None],
                                 t, f.op, "returned")}

(* the steps of task t *)

\* t calls fetch_page on one of the scrapers S
CallFetchPage(t, S, most) ==
    /\ Free(t, most)
    /\ \E s \in S \cap DOMAIN scrapers :
          \E w \in FetchPage(Calling(t), t, s, None) : Become(w)

\* t calls close on one of the scrapers S
CallClose(t, S, most) ==
    /\ Free(t, most)
    /\ \E s \in S \cap DOMAIN scrapers :
          \E w \in Close(Calling(t), t, s, None) : Become(w)

\* t calls ScraperFactory.scrape_with_fallback
CallScrapeWithFallback(t, most) ==
    /\ Free(t, most)
    /\ \E primary_type \in ScraperType :
          \E w \in scrape_with_fallback(Calling(t), t, primary_type) : Become(w)

\* t calls ScraperFactory.cleanup
CallCleanup(t, most) ==
    /\ Free(t, most)
    /\ \E w \in cleanup(Calling(t), t) : Become(w)

\* t is resumed at the await it stands at
Detected(t) == calls[t].pc = "detect" /\ \E w \in DetectDone(World, t) : Become(w)
StaticRetry(t) == calls[t].pc = "get_session" /\ \E w \in GetSession(World, t) : Become(w)
Got(t) == calls[t].pc = "get" /\ \E w \in GetDone(World, t) : Become(w)
SessionClosed(t) ==
    calls[t].pc = "session_close" /\ \E w \in SessionCloseDone(World, t) : Become(w)
DynamicRetry(t) == calls[t].pc = "ensure" /\ \E w \in EnsureBrowser(World, t) : Become(w)
Started(t) == calls[t].pc = "start" /\ \E w \in StartDone(World, t) : Become(w)
Launched(t) == calls[t].pc = "launch" /\ \E w \in LaunchDone(World, t) : Become(w)
ContextMade(t) == calls[t].pc = "new_context" /\ \E w \in NewContextDone(World, t) : Become(w)
ScriptAdded(t) == calls[t].pc = "init_script" /\ \E w \in InitScriptDone(World, t) : Become(w)
PageMade(t) == calls[t].pc = "new_page" /\ \E w \in NewPageDone(World, t) : Become(w)
PageUsed(t) == calls[t].pc = "body" /\ \E w \in BodyDone(World, t) : Become(w)
PageClosed(t) == calls[t].pc = "page_close" /\ \E w \in PageCloseDone(World, t) : Become(w)
ContextClosed(t) ==
    calls[t].pc = "context_close" /\ \E w \in ContextCloseDone(World, t) : Become(w)
BrowserClosed(t) ==
    calls[t].pc = "browser_close" /\ \E w \in BrowserCloseDone(World, t) : Become(w)
Stopped(t) == calls[t].pc = "stop" /\ \E w \in StopDone(World, t) : Become(w)

\* the resumptions inside StaticScraper's methods
StaticResume(t) == StaticRetry(t) \/ Got(t) \/ SessionClosed(t)

\* the resumptions inside DynamicScraper's methods
DynamicResume(t) ==
    \/ DynamicRetry(t) \/ Started(t) \/ Launched(t) \/ ContextMade(t)
    \/ ScriptAdded(t) \/ PageMade(t) \/ PageUsed(t) \/ PageClosed(t)
    \/ ContextClosed(t) \/ BrowserClosed(t) \/ Stopped(t)

\* one StaticScraper and one DynamicScraper, made outside the factory
TheStatic == 1
TheDynamic == 2

ScrapersProcess ==
    /\ Standby
    /\ pc = "scrapers"
    /\ arg = None
    /\ ret = None
    /\ factory = ScraperFactory
    /\ scrapers = <<StaticScraper, DynamicScraper>>
    /\ resources = NoResources
    /\ calls = [t \in Tasks |-> NoCall]

\* two tasks call fetch_page and close on one DynamicScraper
BrowserNext ==
    \E t \in Tasks :
        \/ CallFetchPage(t, {TheDynamic}, MaxCalls)
        \/ CallClose(t, {TheDynamic}, MaxCalls)
        \/ DynamicResume(t)

BrowserSpec == ScrapersProcess /\ [][BrowserNext]_vars

\* one task calls fetch_page and close on the two scrapers, one call after
\* the other
StrategyNext ==
    \/ CallFetchPage("t1", {TheStatic, TheDynamic}, MaxCalls + 1)
    \/ CallClose("t1", {TheStatic, TheDynamic}, MaxCalls + 1)
    \/ StaticResume("t1")
    \/ DynamicResume("t1")

StrategySpec == ScrapersProcess /\ [][StrategyNext]_vars

\* two tasks call scrape_with_fallback, as ScrapingEngine.scrape does for a
\* page, and cleanup
FactoryProcess ==
    /\ Standby
    /\ pc = "factory"
    /\ arg = None
    /\ ret = None
    /\ Unused

FactoryNext ==
    \E t \in Tasks :
        \/ CallScrapeWithFallback(t, MaxRequests)
        \/ CallCleanup(t, MaxRequests)
        \/ Detected(t)
        \/ StaticResume(t)
        \/ DynamicResume(t)

FactorySpec == FactoryProcess /\ [][FactoryNext]_vars

----------------------------------------------------------------------------
(* Paginated scrapes of up to MaxMaxPages pages whose records have a URL   *)
(* field: the text of every container is read as a relative URL            *)

PagingRequests ==
    [url : {Url("http", TRUE, "x.test", <<"list">>)},
     scraper_type : {AUTO, STATIC},
     fields : {<<KeyUrl>>},
     container_selector : {Some(GoodSelector)},
     pagination : {Some(Pagination(TRUE, Some(GoodSelector), MaxMaxPages))},
     timeout : {DefaultTimeout}]

PagingProcess == request \in PagingRequests /\ AtStart

PagingSpec == PagingProcess /\ [][Next]_vars

\* scrape calls whose first page can link to itself: every page may carry
\* the absolute link https://y.test/q, the URL the scrape starts at; the
\* page limit is any integer the request model lets through.  The calls
\* that select the strategy by detection fetch one page.
SelfLinkedRequests ==
    { r \in [url : {Url("https", TRUE, "y.test", <<"q">>)},
             scraper_type : {AUTO, STATIC},
             fields : {<<Title>>},
             container_selector : {None},
             pagination : {None} \cup
                          {Some(Pagination(TRUE, Some(GoodSelector), mp)) :
                              mp \in (0 - 1)..MaxMaxPages},
             timeout : {DefaultTimeout}] :
        r.scraper_type = AUTO => IsNone(r.pagination) }

SelfLinkedProcess == request \in SelfLinkedRequests /\ AtStart

\* every call the engine awaits returns or raises: a step that can be taken
\* is taken.  Each action ends at the next await of scrape or at its return,
\* and the event loop resumes a coroutine whose awaited call is over.
TerminationSpec == SelfLinkedProcess /\ [][Next]_vars /\ WF_vars(Next)

----------------------------------------------------------------------------
(* Properties of scrape *)

Done == pc = "done"
Returned == Done /\ ~IsNone(outcome)
Succeeded == Returned /\ Get(outcome).success
Failed == Returned /\ ~Get(outcome).success
Result == Get(Get(outcome).result)
Error == Get(Get(outcome).error)

ValidationKinds == {"INVALID_URL", "NO_FIELDS"}
ErrorKinds == ValidationKinds \cup {"TIMEOUT", "SCRAPE_ERROR"}

\* the number of attempts a scraper's @retry permits
StopAfterAttempt(scraper) ==
    IF scraper = STATIC THEN StaticStopAfterAttempt ELSE DynamicStopAfterAttempt

\* no transport attempt, no fetch_page call, no scrape_with_fallback call
NoFetchMade == net_calls = {} /\ fetch_calls = <<>> /\ saf_calls = 0

\* scrape_with_fallback raised: an exception is propagating that neither
\* extract_data nor _find_next_page created
FallbackRaised ==
    /\ ~IsNone(exc)
    /\ Get(exc).origin \notin {"extract_data", "_find_next_page"}

\* C1: for a request with an empty field list no fetch attempt of any kind
\* (static, dynamic, detector) is ever made during the call, and the call
\* ends with a failure outcome of a validation kind.
C1_EmptyFieldsNoFetch ==
    request.fields = <<>> =>
        /\ NoFetchMade
        /\ Done => Failed /\ Error.code \in ValidationKinds /\ IsNone(Get(outcome).result)

C1_Witness ==
    /\ Done /\ request.fields = <<>> /\ UrlValid(request)
    /\ Failed /\ Error.code = "NO_FIELDS"

\* C2: for a request whose URL has no http or https scheme no fetch attempt
\* is ever made, and the call ends at once (no page scraped) with a
\* structured validation failure: kind INVALID_URL, a message, the URL in the
\* details.
C2_BadSchemeNoFetch ==
    ~HasHttpScheme(request.url) =>
        /\ NoFetchMade
        /\ Done => /\ Failed
                   /\ Error.code = "INVALID_URL"
                   /\ Error.message = "URL must start with http:// or https://"
                   /\ Error.details = ErrorDetails(Some(request.url), None, None)
                   /\ pages_scraped = 0

C2_Witness ==
    /\ Done /\ request.url.scheme = "ftp" /\ request.fields # <<>>
    /\ Failed /\ Error.code = "INVALID_URL"

\* C3: a call of scrape that has ended has returned a ScrapeResponse in which
\* exactly one variant is populated (success with a result and no error, or
\* failure with an error of an explicit kind and a message and no result), and
\* no exception has escaped; an exception that propagates inside scrape is
\* on its way to the except clauses.
C3_StructuredOutcome ==
    /\ Done =>
         /\ IsNone(escaped)
         /\ ~IsNone(outcome)
         /\ \/ /\ Get(outcome).success
               /\ ~IsNone(Get(outcome).result)
               /\ IsNone(Get(outcome).error)
            \/ /\ ~Get(outcome).success
               /\ IsNone(Get(outcome).result)
               /\ ~IsNone(Get(outcome).error)
               /\ Error.code \in ErrorKinds
               /\ Error.message \in STRING
    /\ (~Done /\ ~IsNone(exc)) => pc = "except"

C3_Witness ==
    /\ Failed /\ Error.code = "SCRAPE_ERROR"
    /\ Error.details = ErrorDetails(Some(request.url), None, Some("RetryError"))

\* C4: within one scrape_with_fallback call fetch_page is called on at most
\* two scrapers, which are distinct; the first is the static scraper for
\* STATIC, the dynamic one for DYNAMIC and the detector's recommendation for
\* AUTO, the second is the other one; the second call is made only after the
\* first has raised, and no call follows one that returned.
C4_PrimaryThenFallback ==
    LET n == Len(fetch_calls)
        first == IF request.scraper_type = AUTO THEN recommended
                 ELSE request.scraper_type
    IN  /\ n <= 2
        /\ n >= 1 => fetch_calls[1].scraper = first
        /\ n = 2 => /\ fetch_calls[2].scraper = Other(first)
                    /\ fetch_calls[2].scraper # fetch_calls[1].scraper
                    /\ fetch_calls[1].ended /\ ~fetch_calls[1].ok
        /\ \A i \in 1..n : fetch_calls[i].ok => i = n /\ pc # "attempt"

C4_Witness ==
    /\ request.scraper_type = AUTO /\ recommended = STATIC
    /\ Len(fetch_calls) = 2
    /\ fetch_calls[1].scraper = STATIC /\ ~fetch_calls[1].ok
    /\ fetch_calls[2].scraper = DYNAMIC /\ fetch_calls[2].ok

\* C5: when scrape_with_fallback raises, both candidates' fetch_page calls
\* have raised, and the exception it raises is the one the second call
\* raised, not the first call's.
C5_LastErrorSurfaces ==
    (pc = "except" /\ FallbackRaised) =>
        /\ Len(fetch_calls) = 2
        /\ \A i \in 1..2 : fetch_calls[i].ended /\ ~fetch_calls[i].ok
        /\ exc = fetch_calls[2].raised
        /\ exc # fetch_calls[1].raised

C5_Witness ==
    /\ pc = "except" /\ FallbackRaised
    /\ Len(fetch_calls) = 2
    /\ Get(fetch_calls[1].raised).type = "RetryError"
    /\ Get(exc).type = "UnicodeDecodeError"

\* C6: a scrape with mode STATIC in which every fetch went the same way (the
\* static scraper's attempts all timed out, the dynamic scraper then
\* returned a page) and in which the query engine raised no selector error
\* returns success, and scraper_used is "dynamic (fallback)", which is not a
\* label under which a first candidate is reported.
C6_FallbackReported ==
    ( /\ Done
      /\ request.scraper_type = STATIC
      /\ saf_calls >= 1
      /\ Len(page_fetches) = saf_calls
      /\ \A i \in 1..Len(page_fetches) :
            page_fetches[i].fallback /\ page_fetches[i].after_timeout
      /\ IsNone(exc) )
    => /\ Succeeded
       /\ Result.scraper_used = "dynamic (fallback)"
       /\ Result.scraper_used \notin {"static", "dynamic"}

C6_Witness ==
    /\ Succeeded
    /\ request.scraper_type = STATIC
    /\ Len(page_fetches) = 1
    /\ page_fetches[1].fallback /\ page_fetches[1].after_timeout
    /\ fetch_calls[1].attempts = StaticStopAfterAttempt
    /\ fetch_calls[1].last_type = "TimeoutError"

\* C7 (as claimed): when scrape fails because scrape_with_fallback raised and
\* every attempt of both fetch_page calls had timed out, each call having
\* used up its attempts, the outcome has kind TIMEOUT.
C7_TimeoutKind ==
    ( /\ Failed
      /\ FallbackRaised
      /\ Len(fetch_calls) = 2
      /\ \A i \in 1..2 : /\ fetch_calls[i].ended /\ ~fetch_calls[i].ok
                         /\ fetch_calls[i].timeouts
      /\ \A i \in 1..2 : fetch_calls[i].attempts = StopAfterAttempt(fetch_calls[i].scraper) )
    => Error.code = "TIMEOUT"

\* C8 (as claimed): a fetch_page call that raises after its last permitted
\* attempt failed with a transport or timeout error raises an exception of
\* that attempt's class.
C8_OriginalErrorRaised ==
    \A i \in 1..Len(fetch_calls) :
        ( /\ fetch_calls[i].ended /\ ~fetch_calls[i].ok
          /\ fetch_calls[i].attempts = StopAfterAttempt(fetch_calls[i].scraper)
          /\ fetch_calls[i].last_type \in
                {"TimeoutError", "ClientError", "PlaywrightTimeoutError", "PlaywrightError"} )
        => Get(fetch_calls[i].raised).type = fetch_calls[i].last_type

\* C9: when scrape_with_fallback raises for a page after the first, scrape
\* returns a failure whose result is absent: none of the records gathered
\* from the earlier pages is handed out.
C9_NoPartialSuccess ==
    (Done /\ saf_calls >= 2 /\ FallbackRaised) =>
        /\ Failed
        /\ IsNone(Get(outcome).result)

C9_Witness ==
    /\ Done /\ saf_calls >= 2 /\ FallbackRaised
    /\ pages_scraped >= 1 /\ all_data # <<>>
    /\ Failed

\* C10: in a call that passed validation, scrape_with_fallback is called at
\* most max_pages times when pagination is enabled (max_pages >= 1, as the
\* data model has it), and exactly once by the time the call has ended when
\* pagination is disabled or absent; pages_scraped of a success outcome
\* obeys the same limits.
C10_PageLimit ==
    (UrlValid(request) /\ FieldsValid(request)) =>
        IF PaginationEnabled(request)
        THEN Get(request.pagination).max_pages >= 1 =>
                /\ saf_calls <= Get(request.pagination).max_pages
                /\ Succeeded => Result.pages_scraped <= Get(request.pagination).max_pages
        ELSE /\ saf_calls <= 1
             /\ Done => saf_calls = 1
             /\ Succeeded => Result.pages_scraped = 1

C10_Witness ==
    /\ Succeeded
    /\ PaginationEnabled(request)
    /\ Get(request.pagination).max_pages >= 2
    /\ saf_calls = Get(request.pagination).max_pages
    /\ Result.pages_scraped = Get(request.pagination).max_pages

----------------------------------------------------------------------------
\* C11: in a paginated scrape, when the page just fetched has no next link
\* (no element matches the selector, the match has no href, or no selector
\* is configured), the loop stops after that page with no further fetch, and
\* the scrape then returns success with the records of the pages fetched so
\* far and pages_scraped equal to the number of pages fetched.
C11_NoNextLink ==
    /\ pc = "returned"
    /\ ~ExtractRaises(request.container_selector)
    /\ LooksForNextPage(request, page_num, max_pages)
    /\ LET selector == Get(request.pagination).next_page_selector
       IN  /\ ~FindNextRaises(selector)
           /\ IsNone(selector) \/ IsNone(Get(fp_result.html).next)

C11_StopsWithoutNext ==
    [][ /\ C11_NoNextLink =>
             /\ pc' = "normalize"
             /\ pages_scraped' = Len(page_fetches')
             /\ all_data' = all_data \o extract_data(Get(fp_result.html),
                                  request.fields, request.container_selector)
             /\ saf_calls' = saf_calls
        /\ pc = "normalize" =>
             /\ Succeeded'
             /\ Result'.data = normalize(all_data, request.url)
             /\ Result'.pages_scraped = Len(page_fetches)
             /\ Result'.pages_scraped = saf_calls
             /\ saf_calls' = saf_calls /\ net_calls' = net_calls
             /\ fetch_calls' = fetch_calls
      ]_vars

\* a two-page request whose first page had no next link returned success
\* with one page
C11_Witness ==
    /\ Succeeded
    /\ PaginationEnabled(request)
    /\ max_pages = 2
    /\ Get(request.pagination).next_page_selector = Some(GoodSelector)
    /\ Result.pages_scraped = 1
    /\ saf_calls = 1
    /\ Result.data # <<>>

----------------------------------------------------------------------------
\* C12: in every success outcome of a multi-page scrape, scraper_used is the
\* label returned by the fetch of the first page, whatever the fetches of
\* later pages returned.
C12_FirstPageLabel ==
    (Succeeded /\ Len(page_fetches) >= 2) =>
        Result.scraper_used = page_fetches[1].name

----------------------------------------------------------------------------
(* Vocabulary of the limiter properties *)

\* the DomainState filed under a domain, None if there is none
StateOf(domain) ==
    IF domain_states[domain] = 0 THEN None
    ELSE Some(states[domain_states[domain]])

\* the DomainState object in slot i before a step; an object the step
\* creates starts as DomainState()
Before(i) == states[i]

\* the step stamps the object in slot i: only lines 93-94 assign
\* last_request_time
Returns(i) ==
    /\ i \in Referenced(domain_states', tasks')
    /\ states'[i].last_request_time # Before(i).last_request_time

\* the delay the call that returns in this step computed
ReturnDelay(i) ==
    IF \E t \in Tasks : tasks[t].pc = "pacing" /\ tasks'[t].pc = "idle"
    THEN tasks[CHOOSE t \in Tasks : tasks[t].pc = "pacing" /\ tasks'[t].pc = "idle"].delay
    ELSE Delay(limiter, Before(i).request_count)

\* what is_blocked(url) would answer now for a URL of the domain
BlockedNow(domain) ==
    ~IsNone(StateOf(domain)) /\ is_blocked(Get(StateOf(domain)), now).value

----------------------------------------------------------------------------
\* C13: every fetch attempt of a strategy is preceded by a wait_for_slot call
\* for the domain of the URL fetched: once the static or the dynamic
\* transport has been used, the limiter holds a DomainState for the domain
\* of the current URL whose request_count is at least 1.
C13_SlotBeforeFetch ==
    (net_calls \cap {STATIC, DYNAMIC} # {}) =>
        LET state == StateOf(get_domain(current_url))
        IN  ~IsNone(state) /\ Get(state).request_count >= 1

----------------------------------------------------------------------------
\* C14: two concurrent wait_for_slot calls on one domain, under every
\* interleaving of their suspension points, stamp last_request_time at times
\* that differ by at least the delay: a call that returns does so at least
\* its delay after the stamp the DomainState carries.
C14_StampsSpaced ==
    [][ \A i \in Slots :
          (Returns(i) /\ states[i].last_request_time # 0) =>
              now - states[i].last_request_time >= ReturnDelay(i)
      ]_vars

----------------------------------------------------------------------------
\* C15: after mark_blocked(u), is_blocked(u) is true at once and, under every
\* interleaving of mark_blocked, wait_for_slot and is_blocked, answers false
\* only at times at or after the latest blocked_until, and answers false once
\* that time has passed.
C15_BlockedUntilCooldown ==
    \A d \in Domains :
        ~IsNone(StateOf(d)) =>
            (BlockedNow(d) <=> (Get(StateOf(d)).blocked_until # 0
                                /\ now < Get(StateOf(d)).blocked_until))

----------------------------------------------------------------------------
\* C16: the delay wait_for_slot enforces is min_delay while request_count <=
\* requests_before_increase and min(min_delay * (1 + 0.5 * min(request_count
\* div requests_before_increase, 5)), max_delay) above it; it does not
\* decrease from one call to the next and never exceeds max_delay, whatever
\* the configuration.
C16_DelaySchedule ==
    /\ \A i \in Referenced(domain_states, tasks) :
         LET n == states[i].request_count
             T == limiter.requests_before_increase
             stepped == (limiter.min_delay * (2 + Min2(n \div T, 5))) \div 2
         IN  /\ Delay(limiter, n) =
                  IF n <= T THEN limiter.min_delay
                  ELSE Min2(stepped, limiter.max_delay)
             /\ Delay(limiter, n) <= Delay(limiter, n + 1)
             /\ Delay(limiter, n) <= limiter.max_delay
    /\ \A t \in Tasks :
         tasks[t].pc = "pacing" => tasks[t].delay <= limiter.max_delay

----------------------------------------------------------------------------
\* C17: a wait_for_slot call that runs without interference: if
\* blocked_until is in the future when it is called it suspends until
\* blocked_until has passed and clears the blocked flag; it returns only when
\* the time since the previous last_request_time is at least the computed
\* delay; on return last_request_time is the time of the return and
\* request_count has grown by exactly 1.
C17_SingleCall ==
    [][ /\ \A t \in Tasks :
             LET task == tasks'[t]
                 state == Before(task.state)
             IN  /\ (tasks[t].pc = "idle" /\ task.pc # "idle"
                       /\ state.blocked /\ now < state.blocked_until) =>
                        (task.pc = "cooldown" /\ task.wake >= state.blocked_until)
                 /\ (tasks[t].pc = "cooldown" /\ task.pc # "cooldown") =>
                        /\ now >= states[tasks[t].state].blocked_until
                        /\ ~states'[tasks[t].state].blocked
        /\ \A i \in Slots :
             Returns(i) =>
                 /\ ~(Before(i).blocked /\ now < Before(i).blocked_until)
                 /\ now - Before(i).last_request_time >=
                        Delay(limiter, Before(i).request_count)
                 /\ states'[i].last_request_time = now
                 /\ states'[i].request_count = Before(i).request_count + 1
      ]_vars

\* a call made during a cooldown that followed a request has returned: it
\* slept through the cooldown, then through the pacing delay
C17_Witness ==
    /\ \A t \in Tasks : tasks[t].pc = "idle"
    /\ \E i \in Slots :
         /\ states[i].blocked_until # 0
         /\ ~states[i].blocked
         /\ states[i].request_count = 1
         /\ states[i].last_request_time = now
         /\ now = states[i].blocked_until + limiter.min_delay

----------------------------------------------------------------------------
\* C18: mark_blocked sets blocked_until to now + block_cooldown and
\* request_count to 0 and leaves last_request_time as it was, so that the
\* first wait_for_slot call after the cooldown enforces the base delay
\* min_delay.
C18_MarkBlocked ==
    [][ /\ \A url \in LimiterUrls :
             MarkBlocked("t1", url) =>
                 LET i == domain_states'[LowerHost(url.host)]
                 IN  /\ i # 0
                     /\ states'[i].blocked
                     /\ states'[i].blocked_until = now + limiter.block_cooldown
                     /\ states'[i].request_count = 0
                     /\ states'[i].last_request_time = Before(i).last_request_time
        /\ \A i \in Slots :
             (Returns(i) /\ states[i].blocked_until # 0
                 /\ states[i].request_count = 0) =>
                 /\ now >= states[i].blocked_until
                 /\ ReturnDelay(i) = limiter.min_delay
                 /\ now - states[i].last_request_time >= limiter.min_delay
      ]_vars

\* a domain was marked blocked and the first call made after the cooldown
\* has just returned
C18_Witness ==
    \E i \in Slots :
        /\ states[i].blocked_until # 0
        /\ states[i].request_count = 1
        /\ states[i].last_request_time >= states[i].blocked_until
        /\ states[i].last_request_time = now

----------------------------------------------------------------------------
\* C19: domains are independent: the steps of a task that calls the limiter
\* for domain A leave the DomainState of the other domain B as it was, and
\* leave a wait_for_slot call suspended on B as it was (its wake-up time
\* included); the sleep a call on B asks for depends on B's state alone.
C19_OwnSleep(t, d) ==
    (tasks[t].pc = "idle" /\ tasks'[t].pc # "idle") =>
        LET state == IF IsNone(StateOf(d)) THEN DomainState ELSE Get(StateOf(d))
            delay == Delay(limiter, state.request_count)
        IN  tasks'[t].wake =
                IF state.blocked /\ now < state.blocked_until
                THEN state.blocked_until
                ELSE now + delay - (now - state.last_request_time)

C19_DomainsIndependent ==
    [][ /\ TaskNext("t1", UrlsOf("x.test")) =>
             /\ StateOf("y.test")' = StateOf("y.test")
             /\ tasks'["t2"] = tasks["t2"]
             /\ C19_OwnSleep("t1", "x.test")
        /\ TaskNext("t2", UrlsOf("y.test")) =>
             /\ StateOf("x.test")' = StateOf("x.test")
             /\ tasks'["t1"] = tasks["t1"]
             /\ C19_OwnSleep("t2", "y.test")
      ]_vars

\* while the call of t1 on x.test is still suspended in a cooldown, a call of
\* t2 on y.test made later has slept and returned
C19_Witness ==
    /\ tasks["t1"].pc = "cooldown"
    /\ tasks["t1"].domain = "x.test"
    /\ tasks["t2"].pc = "idle"
    /\ ~IsNone(StateOf("y.test"))
    /\ Get(StateOf("y.test")).request_count = 2
    /\ Get(StateOf("y.test")).last_request_time > tasks["t1"].current_time

----------------------------------------------------------------------------
\* C20: whenever a strategy receives a response that is_blocked_response
\* classifies as blocked, the strategy calls mark_blocked, so that is_blocked
\* is true for the domain afterwards.
C20_BlockedResponseMarked ==
    \A i \in 1..Len(fetch_calls) :
        LET response == ResponseOf(fetch_calls[i].last_type)
        IN  (~IsNone(response)
               /\ is_blocked_response(Get(response).status_code, Get(response).body))
            => BlockedNow(get_domain(current_url))

----------------------------------------------------------------------------
(* Vocabulary of the normalizer claims *)

\* the i-th record of the input with every value normalized
Cleaned(i) ==
    [key \in DOMAIN arg.data[i] |->
        NormalizeValue(key, arg.data[i][key], arg.base_url)]

\* null, the empty string or the empty list
EmptyValue(value) == value \in {None, Some(<<>>), List(<<>>)}

\* the input records that have a value which is not empty once normalized
NonEmptyRecords ==
    {i \in 1..Len(arg.data) :
        \E key \in DOMAIN arg.data[i] : ~EmptyValue(Cleaned(i)[key])}

\* the k-th smallest member of a set of indices
Kth(indices, k) ==
    CHOOSE i \in indices : Cardinality({j \in indices : j < i}) = k - 1

\* the records Cleaned(i) for i in indices, in input order
InInputOrder(indices) == [k \in 1..Cardinality(indices) |-> Cleaned(Kth(indices, k))]

CurlyQuotes == {"<2018>", "<2019>", "<201c>", "<201d>"}

\* no leading or trailing whitespace, no run of whitespace, no zero-width
\* character, no curly quote
FullyCleaned(t) ==
    /\ t # <<>> => Head(t) \notin Whitespace /\ t[Len(t)] \notin Whitespace
    /\ \A i \in 1..(Len(t) - 1) : ~(t[i] \in Whitespace /\ t[i + 1] \in Whitespace)
    /\ \A i \in 1..Len(t) : t[i] \notin ZeroWidth \cup CurlyQuotes

----------------------------------------------------------------------------
\* C21: normalize is idempotent: normalizing the output of normalize, with
\* the same base URL and dedupe setting, returns that output unchanged.
\* (After NormalizeAgain, arg.data is the first output and ret the second.)
C21_Idempotent ==
    pc = "renormalized" => Get(ret) = arg.data

----------------------------------------------------------------------------
\* C22: normalize discards exactly the records whose every normalized value
\* is null, an empty string or an empty list: the output holds the
\* normalized form of every other record and nothing else (with dedupe off,
\* of each of them in input order), and normalize([{a: null, b: ""}]) is
\* the empty list.
C22_DropsEmptyRecords ==
    pc = "normalized" =>
        /\ {Get(ret)[j] : j \in 1..Len(Get(ret))}
               = {Cleaned(i) : i \in NonEmptyRecords}
        /\ ~arg.dedupe => Get(ret) = InInputOrder(NonEmptyRecords)
        /\ arg.data = <<(KeyT :> None) @@ (KeyS :> Some(<<>>))>> => Get(ret) = <<>>

\* a call that discarded a record and kept another
C22_Witness ==
    /\ pc = "normalized"
    /\ ~arg.dedupe
    /\ Len(Get(ret)) >= 1
    /\ Len(Get(ret)) < Len(arg.data)
    /\ \E i \in 1..Len(arg.data) :
          /\ i \notin NonEmptyRecords
          /\ \E key \in DOMAIN arg.data[i] : Cleaned(i)[key] = List(<<>>)

----------------------------------------------------------------------------
\* C23: with dedupe on, no two records of the output have the same
\* key/value pairs, and the output is exactly the first occurrence of every
\* distinct normalized non-empty record, in input order.
C23_FirstOccurrences ==
    (pc = "normalized" /\ arg.dedupe) =>
        LET out == Get(ret)
            first == {i \in NonEmptyRecords :
                         \A j \in NonEmptyRecords : j < i => Cleaned(j) # Cleaned(i)}
        IN  /\ \A m, n \in 1..Len(out) : m # n => out[m] # out[n]
            /\ out = InInputOrder(first)

\* a call whose third record repeats the first one, with another between
C23_Witness ==
    /\ pc = "normalized"
    /\ arg.dedupe
    /\ NonEmptyRecords = {1, 2, 3}
    /\ arg.data[1] # arg.data[3]
    /\ Cleaned(1) = Cleaned(3)
    /\ Cleaned(1) # Cleaned(2)
    /\ Len(Get(ret)) = 2

----------------------------------------------------------------------------
\* C24: every string value in the output of normalize (a value of a
\* record, or an element of a list value) is fully cleaned: no leading or
\* trailing whitespace, no run of two or more whitespace characters, no
\* zero-width character and no curly quote.
C24_FullyCleaned ==
    pc = "normalized" =>
        \A j \in 1..Len(Get(ret)) : \A key \in DOMAIN Get(ret)[j] :
            LET value == Get(ret)[j][key]
            IN  IF IsNone(value) THEN TRUE
                ELSE IF IsList(value)
                     THEN \A e \in 1..Len(Elems(value)) :
                              FullyCleaned(Get(Elems(value)[e]))
                     ELSE FullyCleaned(Get(value))

----------------------------------------------------------------------------
(* Vocabulary of the extractor claims *)

\* the call was given a container selector
WithContainers ==
    ~IsNone(arg.container_selector) /\ Get(arg.container_selector) # ""

\* the record of the i-th container of the document
ContainerRecord(i) == ExtractFields(arg.html[i], arg.fields)

\* the value a field takes on an element when it is the only field
Alone(element, field) == ExtractFields(element, <<field>>)[field.name]

\* the record of an element when a field whose evaluation raises takes its
\* default and every other field its value
Undisturbed(element) ==
    [name \in {arg.fields[i].name : i \in 1..Len(arg.fields)} |->
        LET field == LastNamed(arg.fields, name)
        IN  IF FieldRaises(field) THEN field.default ELSE Alone(element, field)]

----------------------------------------------------------------------------
\* C25: with a container selector, extract_data returns, in document
\* order, the record of every container that has a value which is not
\* null, not an empty string and not an empty list, and of no other
\* container.
C25_DropsEmptyContainers ==
    (pc = "extracted" /\ WithContainers) =>
        LET kept == {i \in 1..Len(arg.html) :
                        \E name \in DOMAIN ContainerRecord(i) :
                            ~EmptyValue(ContainerRecord(i)[name])}
        IN  Get(ret) = [k \in 1..Cardinality(kept) |-> ContainerRecord(Kth(kept, k))]

----------------------------------------------------------------------------
\* C26: without a container selector, extract_data returns exactly one
\* record, whatever the document and the schema, also when every value of
\* that record is null or empty.
C26_OneRecord ==
    (pc = "extracted" /\ ~WithContainers) => Len(Get(ret)) = 1

\* a call without container selector whose one record has no value but null
C26_Witness ==
    /\ pc = "extracted"
    /\ IsNone(arg.container_selector)
    /\ Len(arg.fields) = MaxFields
    /\ Len(Get(ret)) = 1
    /\ \A name \in DOMAIN Get(ret)[1] : IsNone(Get(ret)[1][name])

----------------------------------------------------------------------------
\* C27: a field whose evaluation raises takes its default, every other
\* field of the record and every other container is evaluated as if that
\* field were not there, and extract_data does not raise: the records
\* returned are those of the elements with the failing fields at their
\* defaults (with a container selector, of the containers whose record has
\* a value other than null, in document order).
C27_FieldFailureContained ==
    /\ pc = "extract_raised" => arg.container_selector = Some(BadSelector)
    /\ pc = "extracted" =>
          IF WithContainers
          THEN LET kept == {i \in 1..Len(arg.html) :
                               AnyNotNone(Undisturbed(arg.html[i]))}
               IN  Get(ret) = [k \in 1..Cardinality(kept) |->
                                  Undisturbed(arg.html[Kth(kept, k)])]
          ELSE Get(ret) = <<Undisturbed(Soup(arg.html))>>

\* a call on three containers with a raising field followed by a field
\* that matched in two of them
C27_Witness ==
    /\ pc = "extracted"
    /\ WithContainers
    /\ Len(arg.html) = 3
    /\ Len(arg.fields) = 2
    /\ FieldRaises(arg.fields[1])
    /\ ~FieldRaises(arg.fields[2])
    /\ IsNone(arg.fields[2].default)
    /\ Len(Get(ret)) = 3
    /\ Cardinality({k \in 1..3 : ~IsNone(Get(ret)[k][arg.fields[2].name])}) = 2

----------------------------------------------------------------------------
(* Vocabulary of the detector claims: comparing fractions *)

RatioEq(a, b) == a.num * b.den = b.num * a.den
RatioLe(a, b) == a.num * b.den <= b.num * a.den

----------------------------------------------------------------------------
\* C28: detect never raises: when the preliminary fetch or the analysis
\* raised, it returns a result with is_dynamic true, recommended_scraper
\* DYNAMIC, confidence 0.5 and an indicator that says the detection failed;
\* and in every result recommended_scraper is DYNAMIC exactly when
\* is_dynamic is true.
C28_DetectFallsBack ==
    /\ pc # "detect_raised"
    /\ pc = "detected" =>
          /\ Get(ret).recommended_scraper \in {STATIC, DYNAMIC}
          /\ Get(ret).recommended_scraper = DYNAMIC <=> Get(ret).is_dynamic
          /\ ~IsNone(arg.raises) =>
                /\ Get(ret).is_dynamic
                /\ Get(ret).recommended_scraper = DYNAMIC
                /\ RatioEq(Get(ret).confidence, Ratio(1, 2))
                /\ \E i \in 1..Len(Get(ret).indicators) :
                      Get(ret).indicators[i]
                          = <<"Detection failed", Str(Get(arg.raises))>>

\* a call whose analysis raised although the page itself looks static
C28_Witness ==
    /\ pc = "detected"
    /\ ~IsNone(arg.raises)
    /\ Get(arg.raises).origin = "_analyze_html"
    /\ ~analyze_html(arg.html).is_dynamic
    /\ Get(ret).recommended_scraper = DYNAMIC

----------------------------------------------------------------------------
\* C29: with dynamic_score = static_score = 0 the analysis decides static
\* with confidence 0.5; otherwise it decides dynamic exactly when
\* dynamic_score > static_score, with confidence
\* min(0.95, |dynamic_score - static_score| / (dynamic_score + static_score) + 0.3);
\* the confidence always lies in [0, 1].
C29_Decision ==
    (pc = "detected" /\ IsNone(arg.raises)) =>
        LET d == Scores(arg.html).dynamic_score
            s == Scores(arg.html).static_score
            gap == IF d >= s THEN d - s ELSE s - d
            raw == Ratio(10 * gap + 3 * (d + s), 10 * (d + s))
            cap == Ratio(95, 100)
            r == Get(ret)
        IN  /\ r.confidence.den > 0
            /\ RatioLe(Ratio(0, 1), r.confidence)
            /\ RatioLe(r.confidence, Ratio(1, 1))
            /\ IF d = 0 /\ s = 0
               THEN ~r.is_dynamic /\ RatioEq(r.confidence, Ratio(1, 2))
               ELSE /\ r.is_dynamic <=> d > s
                    /\ RatioLe(r.confidence, raw)
                    /\ RatioLe(r.confidence, cap)
                    /\ RatioEq(r.confidence, raw) \/ RatioEq(r.confidence, cap)

\* an analysis that decided a tie: static, with confidence 0.3
C29_Witness ==
    /\ pc = "detected"
    /\ IsNone(arg.raises)
    /\ Scores(arg.html).dynamic_score = Scores(arg.html).static_score
    /\ Scores(arg.html).static_score > 0
    /\ ~Get(ret).is_dynamic
    /\ RatioEq(Get(ret).confidence, Ratio(3, 10))

----------------------------------------------------------------------------
\* C30: every fetch_page call, on either scraper, makes at most 3
\* attempts; a call that returned has ended and no attempt follows in it; a
\* static call goes on after a failed attempt only if that attempt failed
\* with a transport error or a timeout, and a static call whose attempt
\* failed with any other error has ended, raising that very error.
C30_Attempts ==
    LET transport == {"ClientError", "TimeoutError"}
    IN  /\ pc = "attempt" =>
              /\ ~CurrentCall.ended
              /\ attempt = CurrentCall.attempts + 1
              /\ attempt <= 3
        /\ \A i \in 1..Len(fetch_calls) :
              LET call == fetch_calls[i]
              IN  /\ call.attempts <= 3
                  /\ call.ok => call.ended
                  /\ (i < Len(fetch_calls) \/ pc # "attempt") => call.ended
                  /\ (call.scraper = STATIC /\ ~call.ended /\ call.attempts >= 1)
                        => call.last_type \in transport
                  /\ (call.scraper = STATIC /\ ~call.ok /\ call.attempts >= 1
                      /\ call.last_type \notin transport)
                        => /\ call.ended
                           /\ ~IsNone(call.raised)
                           /\ Get(call.raised).type = call.last_type

\* a static call that a decoding error ended at its second attempt, and
\* then a dynamic call that succeeded at its third
C30_Witness ==
    \E i, j \in 1..Len(fetch_calls) :
        /\ fetch_calls[i].scraper = STATIC
        /\ fetch_calls[i].ended
        /\ fetch_calls[i].attempts = 2
        /\ ~IsNone(fetch_calls[i].raised)
        /\ Get(fetch_calls[i].raised).type = "UnicodeDecodeError"
        /\ fetch_calls[j].scraper = DYNAMIC
        /\ fetch_calls[j].attempts = 3
        /\ fetch_calls[j].ok

----------------------------------------------------------------------------
(* Vocabulary of the claims about the scrapers' sessions and browsers *)

\* task t runs a call
Running(t) == calls[t].pc \notin {"idle", "returned", "raised"}

\* this step is a step of a fetch_page call of task t, its first included
FetchPageStep(t) ==
    /\ calls'[t] # calls[t]
    /\ \/ calls[t].op = "fetch_page" /\ Running(t)
       \/ calls'[t].op = "fetch_page" /\ calls'[t].made = calls[t].made + 1

\* this step begins a close call of task t on scraper s
CloseBegins(t, s) ==
    /\ calls'[t].made = calls[t].made + 1
    /\ calls'[t].op = "close"
    /\ calls'[t].self = s

\* in this step a close call of task t on scraper s returns
CloseReturns(t, s) ==
    /\ calls'[t] # calls[t]
    /\ calls'[t].op = "close"
    /\ calls'[t].self = s
    /\ calls'[t].pc = "returned"

\* the scraper is as its constructor left it: it holds no session, no
\* driver, no browser and no context
HoldsNothing(o) == o \in {StaticScraper, DynamicScraper}

\* every page that is open belongs to an attempt that is still between
\* new_page and the end of page.close()
PagesInUse ==
    \A p \in resources.pages :
        LET c == calls[p.owner]
        IN  /\ c.op = "fetch_page"
            /\ c.pc \in {"body", "page_close"}
            /\ c.attempt = p.attempt
            /\ c.page = Some(p)

\* C31: every page the dynamic scraper opens in an attempt of fetch_page is
\* closed before the attempt returns or raises, on every attempt: an open
\* page always belongs to an attempt that has not ended, so no page is open
\* once a fetch_page call has ended; and no step of a fetch_page call stops
\* a driver, closes a browser or closes a context.
C31_PageClosed ==
    [][/\ PagesInUse'
       /\ \A t \in Tasks :
             FetchPageStep(t) =>
                 /\ resources.drivers \subseteq resources'.drivers
                 /\ resources.browsers \subseteq resources'.browsers
                 /\ resources.contexts \subseteq resources'.contexts]_vars

\* a fetch_page call made alone has raised after its last attempt, the
\* browser and the context it used are still open, and no page is
C31_Witness ==
    /\ calls["t1"].op = "fetch_page"
    /\ calls["t1"].pc = "raised"
    /\ calls["t1"].made = 1
    /\ calls["t2"].made = 0
    /\ resources.browsers = {1}
    /\ resources.contexts = {1}
    /\ resources.pages = {}

\* C32: at most one browser launched by one DynamicScraper is connected at
\* any time, under every interleaving of fetch_page and close calls on it.
C32_OneBrowser == Cardinality(resources.browsers) <= 1

\* C33: close() called on a scraper that holds nothing (one never used, or
\* one whose close() has just returned) returns at once without an error
\* and leaves it so; and whenever close() returns, the scraper holds no
\* session, no driver, no browser and no context.  (Calls made one after
\* the other.)
C33_CloseIdempotent ==
    [][\A s \in DOMAIN scrapers :
          /\ (CloseBegins("t1", s) /\ HoldsNothing(scrapers[s]))
                => calls'["t1"].pc = "returned"
          /\ CloseReturns("t1", s) => HoldsNothing(scrapers'[s])]_vars

\* the DynamicScraper had launched a browser, close() returned, and a second
\* close() has returned
C33_Witness ==
    /\ calls["t1"].op = "close"
    /\ calls["t1"].self = TheDynamic
    /\ calls["t1"].pc = "returned"
    /\ calls["t1"].again
    /\ resources.launches >= 1
    /\ HoldsNothing(scrapers[TheDynamic])

\* the scrapers the factory makes in this step
Made == (DOMAIN scrapers') \ (DOMAIN scrapers)

\* the factory's reference to its scraper of the given kind
Singleton(f, name) ==
    IF name = "static" THEN f._static_scraper ELSE f._dynamic_scraper

\* task t is inside a call of the given factory method
Inside(t, op) == ~IsNone(calls[t].outer) /\ Get(calls[t].outer).op = op

\* this step is a step of a cleanup call of task t, its first included
CleanupStep(t) ==
    /\ calls'[t] # calls[t]
    /\ \/ Inside(t, "cleanup")
       \/ Inside(t, "cleanup")'
       \/ calls'[t].op = "cleanup"

\* C34: the factory's scrapers are made lazily and once: a step makes a
\* scraper of a kind only when the factory holds none of that kind, and the
\* factory holds the new one afterwards; a scraper the factory holds is
\* replaced by nothing but None, and only by a step of cleanup; and a
\* scrape_with_fallback call takes as its candidates the two scrapers the
\* factory holds, one of each kind.
C34_Singletons ==
    [][/\ \A s \in Made :
             /\ IsNone(Singleton(factory, scrapers'[s].name))
             /\ Singleton(factory', scrapers'[s].name) = Some(s)
       /\ \A name \in {"static", "dynamic"} :
             (~IsNone(Singleton(factory, name))
              /\ Singleton(factory', name) # Singleton(factory, name))
                => /\ IsNone(Singleton(factory', name))
                   /\ \E t \in Tasks : CleanupStep(t)
       /\ \A t \in Tasks :
             (Inside(t, "scrape_with_fallback")' /\ ~Inside(t, "scrape_with_fallback"))
                => LET tries == Get(calls'[t].outer).tries
                   IN  /\ Len(tries) = 2
                       /\ {Some(tries[1]), Some(tries[2])} =
                             {factory'._static_scraper, factory'._dynamic_scraper}
                       /\ scrapers'[Get(factory'._static_scraper)].name = "static"
                       /\ scrapers'[Get(factory'._dynamic_scraper)].name = "dynamic"]_vars

\* two scrape_with_fallback calls run at once on the same two scrapers, the
\* only ones made
C34_Witness ==
    /\ \A t \in Tasks : Inside(t, "scrape_with_fallback")
    /\ Get(calls["t1"].outer).tries[1] = Get(calls["t2"].outer).tries[2]
    /\ Get(calls["t1"].outer).tries[2] = Get(calls["t2"].outer).tries[1]
    /\ Len(scrapers) = 2

\* the scraper holds nothing that is open
Closed(o, r) ==
    IF o.name = "static"
    THEN IsNone(o._session) \/ Get(o._session) \notin r.sessions
    ELSE /\ IsNone(o._playwright) \/ Get(o._playwright) \notin r.drivers
         /\ IsNone(o._browser) \/ Get(o._browser) \notin r.browsers
         /\ IsNone(o._context) \/ Get(o._context) \notin r.contexts

\* in this step a cleanup call of task t returns or raises
CleanupEnds(t) ==
    /\ calls'[t] # calls[t]
    /\ calls'[t].op = "cleanup"
    /\ calls'[t].pc \in {"returned", "raised"}

\* the scrapers the factory held when the cleanup call of task t that ends
\* in this step was made
HeldAtCall(t) ==
    IF Inside(t, "cleanup") THEN Get(calls[t].outer).tries ELSE Held(World)

\* C35: when cleanup returns or raises, the factory holds none of the
\* scrapers it held when cleanup was called, and (no other task having
\* made a call) each of them holds nothing that is open.
C35_CleanupClosesBoth ==
    [][\A t \in Tasks :
          CleanupEnds(t) =>
              /\ Held(World') \cap HeldAtCall(t) = {}
              /\ (\A u \in Tasks \ {t} : calls[u].made = 0)
                    => \A s \in HeldAtCall(t) : Closed(scrapers'[s], resources')]_vars

\* the text of a URL up to and including the last "/" of its path
Directory(u) == UrlText([u EXCEPT !.path = SubSeq(@, 1, Len(@) - 1)]) \o <<"/">>

----------------------------------------------------------------------------
\* C38: in every success outcome of a call that passed validation, whatever
\* integer max_pages the pagination carries, pages_scraped is at least 1,
\* scraper_used is the label of a fetch that returned a page, and
\* total_items is the number of records in data.
C38_SuccessShape ==
    (Succeeded /\ UrlValid(request) /\ FieldsValid(request)) =>
        /\ Result.pages_scraped >= 1
        /\ \E i \in 1..Len(page_fetches) : page_fetches[i].name = Result.scraper_used
        /\ Result.total_items = Len(Result.data)

----------------------------------------------------------------------------
\* the request_count the limiter holds for a domain; a domain without a
\* DomainState has completed no call since its state was removed
HeldCount(domain) ==
    IF IsNone(StateOf(domain)) THEN 0 ELSE Get(StateOf(domain)).request_count

\* the step runs lines 93-94 of a wait_for_slot call on the domain: a
\* suspended call wakes up and returns, or a call returns without sleeping
Completes(domain) ==
    \/ \E t \in Tasks : /\ tasks[t].pc \in {"cooldown", "pacing"}
                        /\ tasks[t].domain = domain
                        /\ tasks'[t].pc = "idle"
    \/ /\ tasks' = tasks
       /\ domain_states'[domain] # 0
       /\ states'[domain_states'[domain]].request_count =
             Before(domain_states'[domain]).request_count + 1

\* C39: under every interleaving of wait_for_slot, mark_blocked and
\* reset_domain calls on one domain, the request_count the limiter holds
\* for the domain counts the wait_for_slot calls completed since the state
\* was created, reset or marked blocked: a completing call raises it by one,
\* also when a reset or a mark_blocked happened while the call was
\* suspended, and any other step leaves it alone or starts it again at 0.
C39_CountsCompletions ==
    [][\A domain \in Domains :
          IF Completes(domain)
          THEN HeldCount(domain)' = HeldCount(domain) + 1
          ELSE HeldCount(domain)' \in {HeldCount(domain), 0}]_vars

----------------------------------------------------------------------------
\* the fetch-extract rounds a call may run: max_pages, none if it is below 1
RoundLimit(r) == IF MaxPagesOf(r) >= 0 THEN MaxPagesOf(r) ELSE 0

\* C37: every scrape call ends with an outcome after at most max_pages
\* rounds (one round without pagination, none for a max_pages below 1),
\* given that every awaited call returns or raises; also when the next
\* link of a page resolves to a URL fetched before.
C37_Terminates ==
    /\ [](saf_calls <= RoundLimit(request))
    /\ <>Returned

\* the first page linked to itself and was fetched again
C37_Witness ==
    /\ Succeeded
    /\ PaginationEnabled(request)
    /\ max_pages = 2
    /\ saf_calls = 2
    /\ Result.pages_scraped = 2
    /\ current_url = request.url

====
